---- MODULE Spec2Model ----
(***************************************************************************)
(* Model of the SCORM player of scorm-shifter                              *)
(* (src/src/components/ScormPlayer.tsx): the session API emulator that     *)
(* setupScormAPI installs on the host window (API for SCORM 1.2 and        *)
(* API_1484_11 for SCORM 2004), the React state it writes, the package     *)
(* load that installs it and the restart handler that replaces it.         *)
(*                                                                         *)
(* A React component is a sequence of renders.  Every render binds its own *)
(* constants (cmiData, scormVersion, isLoading, iframeSrc) to the state of *)
(* that moment, and the functions defined in a render close over those     *)
(* constants.  The model keeps the React state (the variables cmiData,     *)
(* scormVersion, isLoading, iframeSrc) and the cmiData constant that the   *)
(* installed API closures were created over (apiCmi).  React is taken to   *)
(* commit a render after every state update before the next event is       *)
(* handled, so an event handler reads the state as it is when it runs.     *)
(*                                                                         *)
(* loadScormPackage is an async function: it runs from one await to the    *)
(* next, and other events are handled in between.  The parent may give the *)
(* mounted player another file (the effect of lines 536-546 depends on     *)
(* [file]) or unmount it; neither stops a load that is in flight, so       *)
(* several calls of loadScormPackage can be at an await at the same time.  *)
(* The URLs made by URL.createObjectURL are named by the load and the      *)
(* entry they were made for.                                               *)
(***************************************************************************)
EXTENDS Integers, Sequences, FiniteSets, TLC

VARIABLES
    isLoading,          \* useState(true), line 24
    scormVersion,       \* useState(""), line 26
    iframeSrc,          \* useState(""), line 28: the document URL, NoUrl for ""
    cmiData,            \* useState({}), line 29: the React state, key -> string
    mounted,            \* the component is mounted
    file,               \* the file prop, line 16: the name of the archive
    loads,              \* the calls of loadScormPackage so far, in order
    blobUrlsRef,        \* blobUrlsRef.current, line 34
    released,           \* the URLs that URL.revokeObjectURL was called on
    apiInitializedRef,  \* useRef(false), line 35
    apiInstalled,       \* window.API / window.API_1484_11 exist
    initialized,        \* let initialized, line 85 (shared by both API objects)
    lastError,          \* let lastError, line 86 (shared by both API objects)
    apiCmi,             \* the cmiData constant the installed closures read
    startTime,          \* startTimeRef.current, ms
    clock,              \* Date.now(), ms
    nTicks,             \* number of clock advances so far
    last,               \* the most recent API call of the content and its result
    finished,           \* history: a Terminate/LMSFinish succeeded in this session
    activeSince,        \* history: Date.now() at the last successful Initialize
    written,            \* history: key -> value of the successful Sets of this session
    origin,             \* history: what installed the API objects on the window
    prior,              \* history: written of the session that a restart ended
    manifestJob,        \* a manifest given to the parser of lines 282-314, and its result
    rewriteJob,         \* a launch document given to the rewriter of lines 357-514, and its result
    finder,             \* a run of the script of lines 401-455 in a content window
    host                \* the host window and the players the page has mounted

vars == << isLoading, scormVersion, iframeSrc, cmiData, mounted, file, loads,
           blobUrlsRef, released,
           apiInitializedRef, apiInstalled, initialized, lastError, apiCmi,
           startTime, clock, nTicks, last, finished, activeSince,
           written, origin, prior, manifestJob, rewriteJob, finder,
           host >>

----------------------------------------------------------------------------
(* Bounds of the model *)

MaxTicks == 2

\* calls of loadScormPackage in one player
MaxLoads == 2

\* players the page mounts one after the other
MaxPlayers == 3

\* the clock advances by one of these amounts (ms): half a second, 59 s,
\* 1 h 1 min 1 s, 100 h
TickSteps == {500, 59000, 3661000, 360000000}

Versions == {"1.2", "2004"}

\* the key the content writes: the raw score of SCORM 1.2, a well-known key
\* in a package of that version and an unknown key in a SCORM 2004 package
SetElements == {"cmi.core.score.raw"}

\* keys the content reads: that one, the learner id that initializeCMIData
\* seeds for SCORM 1.2 (line 61), and a name every JavaScript object inherits
Elements == SetElements \cup {"cmi.core.student_id", "constructor"}

Values == {"85", "90"}

\* error codes the content asks the two string tables about: one of each
\* table alone, one of neither, and an inherited name
Codes == {"301", "103", "999", "toString"}

----------------------------------------------------------------------------
(* JavaScript objects *)

\* property names every object literal inherits from Object.prototype
ProtoKeys == {"constructor", "toString", "valueOf", "hasOwnProperty",
              "isPrototypeOf", "propertyIsEnumerable", "toLocaleString",
              "__proto__", "__defineGetter__", "__defineSetter__",
              "__lookupGetter__", "__lookupSetter__"}

\* what reading an inherited property yields: an object, never a string
JSObject == "[object]"

\* obj[key] || "" for an object literal obj with string-valued own properties
LookupOrEmpty(obj, key) ==
    IF key \in DOMAIN obj
    THEN obj[key]
    ELSE IF key \in ProtoKeys THEN JSObject ELSE ""

\* { ...prev, [key]: value }
Spread(prev, key, value) ==
    [k \in (DOMAIN prev) \cup {key} |-> IF k = key THEN value ELSE prev[k]]

EmptyObject == [k \in {} |-> ""]

----------------------------------------------------------------------------
(* Pure functions of the player *)

\* initializeCMIData(version), lines 38-77
initializeCMIData(version) ==
    IF version = "2004"
    THEN [k \in {"cmi.completion_status", "cmi.success_status", "cmi.score.raw",
                 "cmi.score.min", "cmi.score.max", "cmi.score.scaled",
                 "cmi.learner_id", "cmi.learner_name", "cmi.location",
                 "cmi.session_time", "cmi.total_time", "cmi.mode", "cmi.credit",
                 "cmi.entry", "cmi.exit", "cmi.suspend_data"} |->
            CASE k = "cmi.completion_status" -> "incomplete"
              [] k = "cmi.success_status" -> "unknown"
              [] k = "cmi.score.min" -> "0"
              [] k = "cmi.score.max" -> "100"
              [] k = "cmi.learner_id" -> "student_001"
              [] k = "cmi.learner_name" -> "SCORM Student"
              [] k = "cmi.session_time" -> "PT0H0M0S"
              [] k = "cmi.total_time" -> "PT0H0M0S"
              [] k = "cmi.mode" -> "normal"
              [] k = "cmi.credit" -> "credit"
              [] k = "cmi.entry" -> "ab-initio"
              [] OTHER -> ""]
    ELSE [k \in {"cmi.core.lesson_status", "cmi.core.score.raw",
                 "cmi.core.score.min", "cmi.core.score.max",
                 "cmi.core.student_id", "cmi.core.student_name",
                 "cmi.core.lesson_location", "cmi.core.session_time",
                 "cmi.core.total_time", "cmi.core.lesson_mode",
                 "cmi.core.credit", "cmi.core.entry", "cmi.core.exit",
                 "cmi.suspend_data", "cmi.comments"} |->
            CASE k = "cmi.core.lesson_status" -> "not attempted"
              [] k = "cmi.core.score.min" -> "0"
              [] k = "cmi.core.score.max" -> "100"
              [] k = "cmi.core.student_id" -> "student_001"
              [] k = "cmi.core.student_name" -> "SCORM Student"
              [] k = "cmi.core.session_time" -> "00:00:00"
              [] k = "cmi.core.total_time" -> "00:00:00"
              [] k = "cmi.core.lesson_mode" -> "normal"
              [] k = "cmi.core.credit" -> "credit"
              [] k = "cmi.core.entry" -> "ab-initio"
              [] OTHER -> ""]

\* one decimal digit as a character
DigitChar(d) ==
    CASE d = 0 -> "0" [] d = 1 -> "1" [] d = 2 -> "2" [] d = 3 -> "3"
      [] d = 4 -> "4" [] d = 5 -> "5" [] d = 6 -> "6" [] d = 7 -> "7"
      [] d = 8 -> "8" [] d = 9 -> "9"

\* String(n) and `${n}` for a whole number n >= 0
RECURSIVE NumToString(_)
NumToString(n) ==
    IF n < 10 THEN DigitChar(n) ELSE NumToString(n \div 10) \o DigitChar(n % 10)

\* String(n).padStart(2, "0")
PadStart2(n) ==
    IF Len(NumToString(n)) < 2 THEN "0" \o NumToString(n) ELSE NumToString(n)

\* Math.floor((Date.now() - startTimeRef.current) / 1000), lines 112 and 199
Elapsed(now, start) == (now - start) \div 1000

\* SessionTime12 with the minutes not reduced to the hour
SessionTime12_WholeMinutes(elapsed) ==
    LET hours == elapsed \div 3600
        minutes == elapsed \div 60
        seconds == elapsed % 60
    IN  PadStart2(hours) \o ":" \o PadStart2(minutes) \o ":" \o PadStart2(seconds)

\* the sessionTime of LMSFinish, lines 113-116
SessionTime12(elapsed) ==
    LET hours == elapsed \div 3600
        minutes == (elapsed % 3600) \div 60
        seconds == elapsed % 60
    IN  PadStart2(hours) \o ":" \o PadStart2(minutes) \o ":" \o PadStart2(seconds)

\* the sessionTime of Terminate, lines 200-203
SessionTime2004(elapsed) ==
    LET hours == elapsed \div 3600
        minutes == (elapsed % 3600) \div 60
        seconds == elapsed % 60
    IN  "PT" \o NumToString(hours) \o "H" \o NumToString(minutes) \o "M"
             \o NumToString(seconds) \o "S"

\* the errors table of LMSGetErrorString, lines 165-171
Errors12 ==
    [c \in {"0", "101", "201", "301", "401"} |->
        CASE c = "0" -> "No error"
          [] c = "101" -> "General exception"
          [] c = "201" -> "Invalid argument"
          [] c = "301" -> "Not initialized"
          [] c = "401" -> "Not implemented"]

\* the errors table of GetErrorString, lines 254-261
Errors2004 ==
    [c \in {"0", "103", "112", "122", "132", "142"} |->
        CASE c = "0" -> "No error"
          [] c = "103" -> "Already initialized"
          [] c = "112" -> "Termination before init"
          [] c = "122" -> "Retrieve before init"
          [] c = "132" -> "Store before init"
          [] c = "142" -> "Commit before init"]

\* ErrorString12 reading one table shared by both versions
ErrorString12_OneTable(errorCode) == LookupOrEmpty(Errors12 @@ Errors2004, errorCode)

\* errors[errorCode] || "", line 172
ErrorString12(errorCode) == LookupOrEmpty(Errors12, errorCode)

\* errors[errorCode] || "", line 262
ErrorString2004(errorCode) == LookupOrEmpty(Errors2004, errorCode)

\* `Diagnostic for ${errorCode}`, line 174
Diagnostic12(errorCode) == "Diagnostic for " \o errorCode

\* `Diagnostic for ${errorCode}`, line 264
Diagnostic2004(errorCode) == "Diagnostic for " \o errorCode

----------------------------------------------------------------------------
(* The archives given to the player *)

\* An archive as loadScormPackage sees it.  readable: JSZip.loadAsync
\* resolves (line 278); files: the paths of the entries that are not
\* directories (zip.forEach with !file.dir, lines 331-332; zip.file(name)
\* finds no directory); the other fields are what the DOM queries of lines
\* 292-314 find in imsmanifest.xml, in document order: the text of the
\* schemaversion elements, the default attribute of organizations ("" when
\* absent), the organizations with the identifierref attributes of their
\* items, and the resources with their href ("" when absent).
Course12 ==
    [name |-> "course12.zip", readable |-> TRUE,
     files |-> {"imsmanifest.xml", "index.html"},
     schemaversion |-> << "1.2" >>,
     default |-> "ORG-1",
     organizations |-> << [identifier |-> "ORG-1", identifierrefs |-> << "RES-1" >>] >>,
     resources |-> << [identifier |-> "RES-1", href |-> "index.html"] >>]

\* the default organization is the second one; the first one launches a
\* resource whose file is not in the archive
Course2004 ==
    [name |-> "course2004.zip", readable |-> TRUE,
     files |-> {"imsmanifest.xml", "content/start.html"},
     schemaversion |-> << "2004 3rd Edition" >>,
     default |-> "ORG-B",
     organizations |-> << [identifier |-> "ORG-A", identifierrefs |-> << "RES-X" >>],
                          [identifier |-> "ORG-B", identifierrefs |-> << "RES-2" >>] >>,
     resources |-> << [identifier |-> "RES-X", href |-> "other.html"],
                      [identifier |-> "RES-2", href |-> "content/start.html"] >>]

\* no schemaversion, no default organization, a resource without href: the
\* launch path falls back to index.html, which the archive does not have
NoLaunchFile ==
    [name |-> "nolaunch.zip", readable |-> TRUE,
     files |-> {"imsmanifest.xml", "main.html"},
     schemaversion |-> << >>,
     default |-> "",
     organizations |-> << [identifier |-> "ORG-1", identifierrefs |-> << "RES-1" >>] >>,
     resources |-> << [identifier |-> "RES-1", href |-> ""] >>]

NoManifest ==
    [name |-> "nomanifest.zip", readable |-> TRUE,
     files |-> {"index.html"},
     schemaversion |-> << >>, default |-> "", organizations |-> << >>,
     resources |-> << >>]

\* not a ZIP archive
Unreadable ==
    [name |-> "notes.txt", readable |-> FALSE,
     files |-> {},
     schemaversion |-> << >>, default |-> "", organizations |-> << >>,
     resources |-> << >>]

Packages == {Course12, Course2004, NoLaunchFile, NoManifest, Unreadable}

PackageNames == {pkg.name : pkg \in Packages}

PackageOf(name) == CHOOSE pkg \in Packages : pkg.name = name

\* String.prototype.includes
Includes(str, sub) ==
    \E i \in 1..(Len(str) - Len(sub) + 1) : SubSeq(str, i, i + Len(sub) - 1) = sub

\* the smallest member of a non-empty set of indices: querySelector returns
\* the first match in document order
First(S) == CHOOSE i \in S : \A j \in S : i <= j

\* zip.file("imsmanifest.xml"), line 282
HasManifest(pkg) == "imsmanifest.xml" \in pkg.files

\* the version read from a text that begins with "2004" only
DetectVersion_Prefix(pkg) ==
    IF /\ Len(pkg.schemaversion) > 0
       /\ Len(pkg.schemaversion[1]) >= 4
       /\ SubSeq(pkg.schemaversion[1], 1, 4) = "2004"
    THEN "2004"
    ELSE "1.2"

\* lines 292-293
DetectVersion(pkg) ==
    IF Len(pkg.schemaversion) > 0 /\ Includes(pkg.schemaversion[1], "2004")
    THEN "2004"
    ELSE "1.2"

\* the first organization whatever the default attribute says
SelectOrganization_First(pkg) ==
    IF Len(pkg.organizations) > 0 THEN << pkg.organizations[1] >> ELSE << >>

\* lines 299-304: the organization named by the default attribute, else the
\* first one; a sequence of no or one organization
SelectOrganization(pkg) ==
    LET orgs == pkg.organizations
        named == {i \in 1..Len(orgs) : orgs[i].identifier = pkg.default}
    IN  IF named # {} THEN << orgs[First(named)] >>
        ELSE IF Len(orgs) > 0 THEN << orgs[1] >>
        ELSE << >>

\* lines 306-307: the identifierref of the first item that has one, "" for
\* undefined
ResourceRef(pkg) ==
    LET organization == SelectOrganization(pkg)
    IN  IF Len(organization) > 0 /\ Len(organization[1].identifierrefs) > 0
        THEN organization[1].identifierrefs[1]
        ELSE ""

\* lines 313-314
LaunchUrl(pkg) ==
    LET named == {i \in 1..Len(pkg.resources) :
                      pkg.resources[i].identifier = ResourceRef(pkg)}
    IN  IF named # {} /\ pkg.resources[First(named)].href # ""
        THEN pkg.resources[First(named)].href
        ELSE "index.html"

\* the archive is read and its manifest names a launch resource: no throw
\* of lines 278-310
ManifestParsed(pkg) == pkg.readable /\ HasManifest(pkg) /\ ResourceRef(pkg) # ""

\* zip.file(launchUrl), lines 384-387
HasLaunchFile(pkg) == LaunchUrl(pkg) \in pkg.files

\* the empty string of useState(""), line 28
NoUrl == << >>

\* the URL that URL.createObjectURL returns for the blob of an entry, line
\* 357: a fresh one for every call
EntryUrl(l, path) == << l, path >>

\* the URL of the rewritten launch document, line 518
DocumentUrl(l) == << l, "#document" >>

----------------------------------------------------------------------------
(* State of the player *)

\* no API call has been made in this session yet
NoCall ==
    [op |-> "none", api |-> "", arg |-> "", value |-> "", ret |-> "",
     ok |-> TRUE, preInit |-> FALSE, preFin |-> FALSE]

\* the record of a call: what was called, what it returned, whether it took
\* its success path, and the session flags it found
Call(op, api, arg, value, ret, ok) ==
    [op |-> op, api |-> api, arg |-> arg, value |-> value, ret |-> ret,
     ok |-> ok, preInit |-> initialized, preFin |-> finished]

\* nothing given to the parser or to the rewriter
NoJob == [pc |-> "none"]

\* the two variables that the player's own steps leave alone
pureVars == << manifestJob, rewriteJob, finder, host >>

\* the component after its first render with a file, lines 24-35; the mount
\* effect (lines 536-539) is about to call loadScormPackage
InitPlayer ==
    /\ isLoading = TRUE
    /\ scormVersion = ""
    /\ iframeSrc = NoUrl
    /\ cmiData = EmptyObject
    /\ mounted = TRUE
    /\ file \in PackageNames
    /\ loads = << >>
    /\ blobUrlsRef = {}
    /\ released = {}
    /\ apiInitializedRef = FALSE
    /\ apiInstalled = FALSE
    /\ initialized = FALSE
    /\ lastError = "0"
    /\ apiCmi = EmptyObject
    /\ startTime = 0
    /\ clock = 0
    /\ nTicks = 0
    /\ last = NoCall
    /\ finished = FALSE
    /\ activeSince = 0
    /\ written = EmptyObject
    /\ origin = "none"
    /\ prior = EmptyObject

Init ==
    /\ InitPlayer
    /\ manifestJob = NoJob
    /\ rewriteJob = NoJob
    /\ finder = NoJob
    /\ host = NoJob

sessionVars == << apiInitializedRef, apiInstalled, initialized, lastError,
                  apiCmi, last, finished, written, origin, prior >>

\* setupScormAPI() called from a render whose cmiData constant is envCmi,
\* lines 80-268: unless the guard of line 81 returns, new API objects with
\* fresh locals replace the ones on the window
setupScormAPI(envCmi) ==
    IF apiInitializedRef
    THEN UNCHANGED sessionVars
    ELSE /\ apiInitializedRef' = TRUE
         /\ apiInstalled' = TRUE
         /\ initialized' = FALSE
         /\ lastError' = "0"
         /\ apiCmi' = envCmi
         /\ last' = NoCall
         /\ finished' = FALSE
         /\ written' = EmptyObject
         /\ origin' = "load"
         /\ prior' = EmptyObject

----------------------------------------------------------------------------
(* The load of a package, loadScormPackage, lines 270-534.  The function    *)
(* is the one of the render whose effect calls it, so the cmiData its       *)
(* setupScormAPI closes over is the state of that render: {} (line 29) at   *)
(* the mount.  A state setter of an unmounted component changes nothing;    *)
(* the refs and the window are written all the same.                        *)

\* a call of loadScormPackage(file) suspended at the await of line 278
NewLoad(name) ==
    [pkg |-> name, pc |-> "parsing", env |-> cmiData, extracted |-> {}]

\* the positions at which a call of loadScormPackage is in flight
InFlight(l) == loads[l].pc \in {"parsing", "extracting"}

\* the mount effect, lines 536-539, and lines 271-278: the loading flag is
\* set and the archive read is awaited
LoadStart ==
    /\ mounted
    /\ loads = << >>
    /\ loads' = << NewLoad(file) >>
    /\ isLoading' = TRUE
    /\ UNCHANGED << scormVersion, iframeSrc, cmiData, mounted, file,
                    blobUrlsRef, released, startTime, clock, nTicks,
                    activeSince >>
    /\ UNCHANGED pureVars
    /\ UNCHANGED sessionVars

\* the parent gives the mounted player another file: the cleanup of the
\* previous effect runs (lines 541-545), then the effect (lines 537-539)
ChangeFile(name) ==
    /\ mounted
    /\ loads # << >>
    /\ Len(loads) < MaxLoads
    /\ name # file
    /\ file' = name
    /\ released' = released \cup blobUrlsRef
    /\ blobUrlsRef' = {}
    /\ loads' = Append(loads, NewLoad(name))
    /\ isLoading' = TRUE
    /\ UNCHANGED << scormVersion, iframeSrc, cmiData, mounted, startTime,
                    clock, nTicks, activeSince >>
    /\ UNCHANGED pureVars
    /\ UNCHANGED sessionVars

\* the parent unmounts the player (onClose, line 17): the cleanup of the
\* effect runs, lines 541-545
Close ==
    /\ mounted
    /\ loads # << >>
    /\ mounted' = FALSE
    /\ released' = released \cup blobUrlsRef
    /\ blobUrlsRef' = {}
    /\ UNCHANGED << isLoading, scormVersion, iframeSrc, cmiData, file, loads,
                    startTime, clock, nTicks, activeSince >>
    /\ UNCHANGED pureVars
    /\ UNCHANGED sessionVars

\* lines 278-328: the archive is read, the manifest gives the version and
\* the launch path, the course info is set, the API is set up and the
\* extraction of every entry is started
LoadManifest(l) ==
    /\ loads[l].pc = "parsing"
    /\ ManifestParsed(PackageOf(loads[l].pkg))
    /\ loads' = [loads EXCEPT ![l].pc = "extracting"]
    /\ IF mounted
       THEN /\ scormVersion' = DetectVersion(PackageOf(loads[l].pkg))
            /\ cmiData' = initializeCMIData(DetectVersion(PackageOf(loads[l].pkg)))
       ELSE UNCHANGED << scormVersion, cmiData >>
    /\ setupScormAPI(loads[l].env)
    /\ UNCHANGED << isLoading, iframeSrc, mounted, file, blobUrlsRef, released,
                    startTime, clock, nTicks, activeSince >>
    /\ UNCHANGED pureVars

\* ExtractEntry creating the URL without pushing it on blobUrlsRef.current
ExtractEntry_Untracked(l, path) ==
    /\ loads[l].pc = "extracting"
    /\ path \in PackageOf(loads[l].pkg).files \ loads[l].extracted
    /\ loads' = [loads EXCEPT ![l].extracted = @ \cup {path}]
    /\ UNCHANGED << isLoading, scormVersion, iframeSrc, cmiData, mounted, file,
                    blobUrlsRef, released, startTime, clock, nTicks,
                    activeSince >>
    /\ UNCHANGED pureVars
    /\ UNCHANGED sessionVars

\* lines 333-376: the blob of one entry arrives, a URL is created for it and
\* pushed on blobUrlsRef.current
ExtractEntry(l, path) ==
    /\ loads[l].pc = "extracting"
    /\ path \in PackageOf(loads[l].pkg).files \ loads[l].extracted
    /\ loads' = [loads EXCEPT ![l].extracted = @ \cup {path}]
    /\ blobUrlsRef' = blobUrlsRef \cup {EntryUrl(l, path)}
    /\ UNCHANGED << isLoading, scormVersion, iframeSrc, cmiData, mounted, file,
                    released, startTime, clock, nTicks, activeSince >>
    /\ UNCHANGED pureVars
    /\ UNCHANGED sessionVars

\* LoadFinish without the launch file check of lines 384-387
LoadFinish_NoCheck(l) ==
    /\ loads[l].pc = "extracting"
    /\ loads[l].extracted = PackageOf(loads[l].pkg).files
    /\ loads' = [loads EXCEPT ![l].pc = "done"]
    /\ blobUrlsRef' = blobUrlsRef \cup {DocumentUrl(l)}
    /\ IF mounted
       THEN /\ iframeSrc' = DocumentUrl(l)
            /\ isLoading' = FALSE
       ELSE UNCHANGED << iframeSrc, isLoading >>
    /\ UNCHANGED << scormVersion, cmiData, mounted, file, released, startTime,
                    clock, nTicks, activeSince >>
    /\ UNCHANGED pureVars
    /\ UNCHANGED sessionVars

\* lines 380-533 with the launch file found: the document is rewritten, its
\* URL is created, pushed on blobUrlsRef.current and handed to the iframe,
\* and the loading flag is cleared
LoadFinish(l) ==
    /\ loads[l].pc = "extracting"
    /\ loads[l].extracted = PackageOf(loads[l].pkg).files
    /\ HasLaunchFile(PackageOf(loads[l].pkg))
    /\ loads' = [loads EXCEPT ![l].pc = "done"]
    /\ blobUrlsRef' = blobUrlsRef \cup {DocumentUrl(l)}
    /\ IF mounted
       THEN /\ iframeSrc' = DocumentUrl(l)
            /\ isLoading' = FALSE
       ELSE UNCHANGED << iframeSrc, isLoading >>
    /\ UNCHANGED << scormVersion, cmiData, mounted, file, released, startTime,
                    clock, nTicks, activeSince >>
    /\ UNCHANGED pureVars
    /\ UNCHANGED sessionVars

\* LoadFail without the finally of lines 531-533
LoadFail_NoFinally(l) ==
    /\ \/ /\ loads[l].pc = "parsing"
          /\ ~ManifestParsed(PackageOf(loads[l].pkg))
       \/ /\ loads[l].pc = "extracting"
          /\ loads[l].extracted = PackageOf(loads[l].pkg).files
          /\ ~HasLaunchFile(PackageOf(loads[l].pkg))
    /\ loads' = [loads EXCEPT ![l].pc = "failed"]
    /\ UNCHANGED << isLoading, scormVersion, iframeSrc, cmiData, mounted, file,
                    blobUrlsRef, released, startTime, clock, nTicks,
                    activeSince >>
    /\ UNCHANGED pureVars
    /\ UNCHANGED sessionVars

\* a throw of line 278 (not an archive), 284 (no manifest), 310 (no launch
\* resource) or 386 (no launch file), then lines 526-533
LoadFail(l) ==
    /\ \/ /\ loads[l].pc = "parsing"
          /\ ~ManifestParsed(PackageOf(loads[l].pkg))
       \/ /\ loads[l].pc = "extracting"
          /\ loads[l].extracted = PackageOf(loads[l].pkg).files
          /\ ~HasLaunchFile(PackageOf(loads[l].pkg))
    /\ loads' = [loads EXCEPT ![l].pc = "failed"]
    /\ isLoading' = IF mounted THEN FALSE ELSE isLoading
    /\ UNCHANGED << scormVersion, iframeSrc, cmiData, mounted, file,
                    blobUrlsRef, released, startTime, clock, nTicks,
                    activeSince >>
    /\ UNCHANGED pureVars
    /\ UNCHANGED sessionVars

\* handleRestart revoking the URLs of the load before it reloads the iframe
handleRestart_Releasing ==
    /\ mounted
    /\ ~isLoading
    /\ cmiData' = initializeCMIData(scormVersion)
    /\ startTime' = clock
    /\ released' = released \cup blobUrlsRef
    /\ blobUrlsRef' = {}
    /\ IF iframeSrc # NoUrl
       THEN /\ apiInitializedRef' = TRUE
            /\ apiInstalled' = TRUE
            /\ initialized' = FALSE
            /\ lastError' = "0"
            /\ apiCmi' = cmiData
            /\ last' = NoCall
            /\ finished' = FALSE
            /\ written' = EmptyObject
            /\ origin' = "restart"
            /\ prior' = written
       ELSE /\ apiInitializedRef' = FALSE
            /\ UNCHANGED << apiInstalled, initialized, lastError, apiCmi, last,
                            finished, written, origin, prior >>
    /\ UNCHANGED << isLoading, scormVersion, iframeSrc, mounted, file, loads,
                    clock, nTicks, activeSince >>
    /\ UNCHANGED pureVars

\* handleRestart, lines 548-560; the button is disabled while loading (line
\* 604), and iframeRef.current is set when the iframe is shown (lines
\* 637-652).  The handler is the one of the latest render: the setupScormAPI
\* it calls after clearing apiInitializedRef closes over the cmiData of that
\* render, the state as it is before the setCmiData of line 549 applies
handleRestart ==
    /\ mounted
    /\ ~isLoading
    /\ cmiData' = initializeCMIData(scormVersion)
    /\ startTime' = clock
    /\ IF iframeSrc # NoUrl
       THEN /\ apiInitializedRef' = TRUE
            /\ apiInstalled' = TRUE
            /\ initialized' = FALSE
            /\ lastError' = "0"
            /\ apiCmi' = cmiData
            /\ last' = NoCall
            /\ finished' = FALSE
            /\ written' = EmptyObject
            /\ origin' = "restart"
            /\ prior' = written
       ELSE /\ apiInitializedRef' = FALSE
            /\ UNCHANGED << apiInstalled, initialized, lastError, apiCmi, last,
                            finished, written, origin, prior >>
    /\ UNCHANGED << isLoading, scormVersion, iframeSrc, mounted, file, loads,
                    blobUrlsRef, released, clock, nTicks, activeSince >>
    /\ UNCHANGED pureVars

\* time passes
Tick(d) ==
    /\ nTicks < MaxTicks
    /\ nTicks' = nTicks + 1
    /\ clock' = clock + d
    /\ UNCHANGED << isLoading, scormVersion, iframeSrc, cmiData, mounted, file,
                    loads, blobUrlsRef, released, startTime, activeSince >>
    /\ UNCHANGED pureVars
    /\ UNCHANGED sessionVars

----------------------------------------------------------------------------
(* The API objects, lines 91-265.  The content of the iframe calls them     *)
(* once the iframe is shown (lines 637-652) with a document URL that has    *)
(* not been revoked.  Both objects                                          *)
(* share the locals initialized and lastError of lines 85-86, and both read *)
(* the cmiData constant of the render that set them up.  The content calls  *)
(* the objects that are on the window at the time of the call.              *)

ContentRunning ==
    /\ mounted
    /\ apiInstalled
    /\ ~isLoading
    /\ iframeSrc # NoUrl
    /\ iframeSrc \notin released

\* what no API call touches
callFrame == << isLoading, scormVersion, iframeSrc, mounted, file, loads,
                blobUrlsRef, released, apiInitializedRef, apiInstalled,
                apiCmi, clock, nTicks, origin, prior, manifestJob,
                rewriteJob, finder, host >>

\* LMSInitialize reporting success while the flag is still to be written
LMSInitialize_Deferred ==
    /\ ContentRunning
    /\ IF initialized
       THEN /\ lastError' = "101"
            /\ last' = Call("Initialize", "API", "", "", "false", FALSE)
            /\ UNCHANGED << initialized, startTime, cmiData, activeSince >>
       ELSE /\ initialized' = FALSE
            /\ startTime' = clock
            /\ cmiData' = Spread(cmiData, "cmi.core.lesson_status", "incomplete")
            /\ lastError' = "0"
            /\ last' = Call("Initialize", "API", "", "", "true", TRUE)
            /\ activeSince' = clock
    /\ UNCHANGED << finished, written >>
    /\ UNCHANGED callFrame

\* lines 92-104
LMSInitialize ==
    /\ ContentRunning
    /\ IF initialized
       THEN /\ lastError' = "101"
            /\ last' = Call("Initialize", "API", "", "", "false", FALSE)
            /\ UNCHANGED << initialized, startTime, cmiData, activeSince >>
       ELSE /\ initialized' = TRUE
            /\ startTime' = clock
            /\ cmiData' = Spread(cmiData, "cmi.core.lesson_status", "incomplete")
            /\ lastError' = "0"
            /\ last' = Call("Initialize", "API", "", "", "true", TRUE)
            /\ activeSince' = clock
    /\ UNCHANGED << finished, written >>
    /\ UNCHANGED callFrame

\* LMSFinish storing the session time before it checks the session
LMSFinish_StoreFirst ==
    /\ ContentRunning
    /\ cmiData' = Spread(cmiData, "cmi.core.session_time",
                         SessionTime12(Elapsed(clock, startTime)))
    /\ IF ~initialized
       THEN /\ lastError' = "301"
            /\ last' = Call("Terminate", "API", "", "", "false", FALSE)
            /\ UNCHANGED << initialized, finished >>
       ELSE /\ initialized' = FALSE
            /\ lastError' = "0"
            /\ last' = Call("Terminate", "API", "", "", "true", TRUE)
            /\ finished' = TRUE
    /\ UNCHANGED << startTime, activeSince, written >>
    /\ UNCHANGED callFrame

\* lines 106-122
LMSFinish ==
    /\ ContentRunning
    /\ IF ~initialized
       THEN /\ lastError' = "301"
            /\ last' = Call("Terminate", "API", "", "", "false", FALSE)
            /\ UNCHANGED << initialized, cmiData, finished >>
       ELSE /\ cmiData' = Spread(cmiData, "cmi.core.session_time",
                                 SessionTime12(Elapsed(clock, startTime)))
            /\ initialized' = FALSE
            /\ lastError' = "0"
            /\ last' = Call("Terminate", "API", "", "", "true", TRUE)
            /\ finished' = TRUE
    /\ UNCHANGED << startTime, activeSince, written >>
    /\ UNCHANGED callFrame

\* lines 124-133
LMSGetValue(element) ==
    /\ ContentRunning
    /\ IF ~initialized
       THEN /\ lastError' = "301"
            /\ last' = Call("GetValue", "API", element, "", "", FALSE)
       ELSE /\ lastError' = "0"
            /\ last' = Call("GetValue", "API", element, "",
                            LookupOrEmpty(apiCmi, element), TRUE)
    /\ UNCHANGED << initialized, cmiData, startTime, finished, activeSince,
                    written >>
    /\ UNCHANGED callFrame

\* lines 135-151; the toasts are not modelled
LMSSetValue(element, value) ==
    /\ ContentRunning
    /\ IF ~initialized
       THEN /\ lastError' = "301"
            /\ last' = Call("SetValue", "API", element, value, "false", FALSE)
            /\ UNCHANGED << cmiData, written >>
       ELSE /\ cmiData' = Spread(cmiData, element, value)
            /\ lastError' = "0"
            /\ last' = Call("SetValue", "API", element, value, "true", TRUE)
            /\ written' = Spread(written, element, value)
    /\ UNCHANGED << initialized, startTime, finished, activeSince >>
    /\ UNCHANGED callFrame

\* LMSCommit leaving the error code of the call before it on success
LMSCommit_KeepError ==
    /\ ContentRunning
    /\ IF ~initialized
       THEN /\ lastError' = "301"
            /\ last' = Call("Commit", "API", "", "", "false", FALSE)
       ELSE /\ lastError' = lastError
            /\ last' = Call("Commit", "API", "", "", "true", TRUE)
    /\ UNCHANGED << initialized, cmiData, startTime, finished, activeSince,
                    written >>
    /\ UNCHANGED callFrame

\* lines 153-161
LMSCommit ==
    /\ ContentRunning
    /\ IF ~initialized
       THEN /\ lastError' = "301"
            /\ last' = Call("Commit", "API", "", "", "false", FALSE)
       ELSE /\ lastError' = "0"
            /\ last' = Call("Commit", "API", "", "", "true", TRUE)
    /\ UNCHANGED << initialized, cmiData, startTime, finished, activeSince,
                    written >>
    /\ UNCHANGED callFrame

\* line 163
LMSGetLastError ==
    /\ ContentRunning
    /\ last' = Call("GetLastError", "API", "", "", lastError, TRUE)
    /\ UNCHANGED << initialized, lastError, cmiData, startTime, finished,
                    activeSince, written >>
    /\ UNCHANGED callFrame

\* lines 164-173
LMSGetErrorString(errorCode) ==
    /\ ContentRunning
    /\ last' = Call("GetErrorString", "API", errorCode, "", ErrorString12(errorCode), TRUE)
    /\ UNCHANGED << initialized, lastError, cmiData, startTime, finished,
                    activeSince, written >>
    /\ UNCHANGED callFrame

\* line 174
LMSGetDiagnostic(errorCode) ==
    /\ ContentRunning
    /\ last' = Call("GetDiagnostic", "API", errorCode, "", Diagnostic12(errorCode), TRUE)
    /\ UNCHANGED << initialized, lastError, cmiData, startTime, finished,
                    activeSince, written >>
    /\ UNCHANGED callFrame

\* Initialize without the check of line 181
Initialize_NoCheck ==
    /\ ContentRunning
    /\ initialized' = TRUE
    /\ startTime' = clock
    /\ cmiData' = Spread(cmiData, "cmi.completion_status", "incomplete")
    /\ lastError' = "0"
    /\ last' = Call("Initialize", "API_1484_11", "", "", "true", TRUE)
    /\ activeSince' = clock
    /\ UNCHANGED << finished, written >>
    /\ UNCHANGED callFrame

\* lines 179-191
Initialize ==
    /\ ContentRunning
    /\ IF initialized
       THEN /\ lastError' = "103"
            /\ last' = Call("Initialize", "API_1484_11", "", "", "false", FALSE)
            /\ UNCHANGED << initialized, startTime, cmiData, activeSince >>
       ELSE /\ initialized' = TRUE
            /\ startTime' = clock
            /\ cmiData' = Spread(cmiData, "cmi.completion_status", "incomplete")
            /\ lastError' = "0"
            /\ last' = Call("Initialize", "API_1484_11", "", "", "true", TRUE)
            /\ activeSince' = clock
    /\ UNCHANGED << finished, written >>
    /\ UNCHANGED callFrame

\* lines 193-209
Terminate ==
    /\ ContentRunning
    /\ IF ~initialized
       THEN /\ lastError' = "112"
            /\ last' = Call("Terminate", "API_1484_11", "", "", "false", FALSE)
            /\ UNCHANGED << initialized, cmiData, finished >>
       ELSE /\ cmiData' = Spread(cmiData, "cmi.session_time",
                                 SessionTime2004(Elapsed(clock, startTime)))
            /\ initialized' = FALSE
            /\ lastError' = "0"
            /\ last' = Call("Terminate", "API_1484_11", "", "", "true", TRUE)
            /\ finished' = TRUE
    /\ UNCHANGED << startTime, activeSince, written >>
    /\ UNCHANGED callFrame

\* lines 211-220
GetValue(element) ==
    /\ ContentRunning
    /\ IF ~initialized
       THEN /\ lastError' = "122"
            /\ last' = Call("GetValue", "API_1484_11", element, "", "", FALSE)
       ELSE /\ lastError' = "0"
            /\ last' = Call("GetValue", "API_1484_11", element, "",
                            LookupOrEmpty(apiCmi, element), TRUE)
    /\ UNCHANGED << initialized, cmiData, startTime, finished, activeSince,
                    written >>
    /\ UNCHANGED callFrame

\* SetValue storing the value before it checks the session
SetValue_StoreFirst(element, value) ==
    /\ ContentRunning
    /\ cmiData' = Spread(cmiData, element, value)
    /\ IF ~initialized
       THEN /\ lastError' = "132"
            /\ last' = Call("SetValue", "API_1484_11", element, value, "false", FALSE)
            /\ UNCHANGED written
       ELSE /\ lastError' = "0"
            /\ last' = Call("SetValue", "API_1484_11", element, value, "true", TRUE)
            /\ written' = Spread(written, element, value)
    /\ UNCHANGED << initialized, startTime, finished, activeSince >>
    /\ UNCHANGED callFrame

\* lines 222-240; the toasts are not modelled
SetValue(element, value) ==
    /\ ContentRunning
    /\ IF ~initialized
       THEN /\ lastError' = "132"
            /\ last' = Call("SetValue", "API_1484_11", element, value, "false", FALSE)
            /\ UNCHANGED << cmiData, written >>
       ELSE /\ cmiData' = Spread(cmiData, element, value)
            /\ lastError' = "0"
            /\ last' = Call("SetValue", "API_1484_11", element, value, "true", TRUE)
            /\ written' = Spread(written, element, value)
    /\ UNCHANGED << initialized, startTime, finished, activeSince >>
    /\ UNCHANGED callFrame

\* Commit without the check of line 244
Commit_NoCheck ==
    /\ ContentRunning
    /\ lastError' = "0"
    /\ last' = Call("Commit", "API_1484_11", "", "", "true", TRUE)
    /\ UNCHANGED << initialized, cmiData, startTime, finished, activeSince,
                    written >>
    /\ UNCHANGED callFrame

\* lines 242-250
Commit ==
    /\ ContentRunning
    /\ IF ~initialized
       THEN /\ lastError' = "142"
            /\ last' = Call("Commit", "API_1484_11", "", "", "false", FALSE)
       ELSE /\ lastError' = "0"
            /\ last' = Call("Commit", "API_1484_11", "", "", "true", TRUE)
    /\ UNCHANGED << initialized, cmiData, startTime, finished, activeSince,
                    written >>
    /\ UNCHANGED callFrame

\* line 252
GetLastError ==
    /\ ContentRunning
    /\ last' = Call("GetLastError", "API_1484_11", "", "", lastError, TRUE)
    /\ UNCHANGED << initialized, lastError, cmiData, startTime, finished,
                    activeSince, written >>
    /\ UNCHANGED callFrame

\* lines 253-263
GetErrorString(errorCode) ==
    /\ ContentRunning
    /\ last' = Call("GetErrorString", "API_1484_11", errorCode, "", ErrorString2004(errorCode), TRUE)
    /\ UNCHANGED << initialized, lastError, cmiData, startTime, finished,
                    activeSince, written >>
    /\ UNCHANGED callFrame

\* line 264
GetDiagnostic(errorCode) ==
    /\ ContentRunning
    /\ last' = Call("GetDiagnostic", "API_1484_11", errorCode, "", Diagnostic2004(errorCode), TRUE)
    /\ UNCHANGED << initialized, lastError, cmiData, startTime, finished,
                    activeSince, written >>
    /\ UNCHANGED callFrame

----------------------------------------------------------------------------
(* The specification *)

----------------------------------------------------------------------------
(* The manifest parser of lines 282-314 as a function of the archive *)

\* the texts of the schemaversion elements of a manifest, in document order
SchemaVersions ==
    {<< >>, << "" >>, << "1.2" >>, << "CAM 1.3" >>, << "2004 3rd Edition" >>,
     << "ADL SCORM 2004 4th Edition" >>, << "1.2", "2004 3rd Edition" >>}

\* the identifierref attributes of the items of an organization
RefLists ==
    {<< >>, << "RES-1" >>, << "RES-2", "RES-1" >>, << "RES-9" >>,
     << "", "RES-1" >>}

\* no organization, one, or two in either order
OrganizationLists ==
    {<< >>}
    \cup {<< [identifier |-> "ORG-A", identifierrefs |-> ra] >> : ra \in RefLists}
    \cup {<< [identifier |-> "ORG-A", identifierrefs |-> ra],
             [identifier |-> "ORG-B", identifierrefs |-> rb] >> :
          ra \in RefLists, rb \in RefLists}
    \cup {<< [identifier |-> "ORG-B", identifierrefs |-> rb],
             [identifier |-> "ORG-A", identifierrefs |-> ra] >> :
          ra \in RefLists, rb \in RefLists}

\* the default attribute: absent, an organization, no organization
Defaults == {"", "ORG-A", "ORG-B", "ORG-Z"}

\* the resources, the first of them with and without an href
ResourceLists ==
    {<< [identifier |-> "RES-1", href |-> h],
        [identifier |-> "RES-2", href |-> "content/start.html"] >> :
     h \in {"index.html", ""}}

\* the archives whose manifest the parser is given
Manifests ==
    {[name |-> "manifest.zip", readable |-> TRUE, files |-> fs,
      schemaversion |-> sv, default |-> d, organizations |-> orgs,
      resources |-> rs] :
     fs \in {{"imsmanifest.xml", "index.html", "content/start.html"},
             {"index.html"}},
     sv \in SchemaVersions, d \in Defaults, orgs \in OrganizationLists,
     rs \in ResourceLists}

\* lines 282-314: the outcome of the manifest stage, an error message (lines
\* 284, 310) or the version, the resource reference and the launch path
ParseManifest(pkg) ==
    IF ~HasManifest(pkg)
    THEN [ok |-> FALSE, error |-> "Invalid SCORM package: imsmanifest.xml not found",
          version |-> "", resourceRef |-> "", launchUrl |-> ""]
    ELSE IF ResourceRef(pkg) = ""
    THEN [ok |-> FALSE, error |-> "No launch resource found in manifest",
          version |-> "", resourceRef |-> "", launchUrl |-> ""]
    ELSE [ok |-> TRUE, error |-> "", version |-> DetectVersion(pkg),
          resourceRef |-> ResourceRef(pkg), launchUrl |-> LaunchUrl(pkg)]

\* the variables of the player
playerVars == << isLoading, scormVersion, iframeSrc, cmiData, mounted, file,
                 loads, blobUrlsRef, released, apiInitializedRef,
                 apiInstalled, initialized, lastError, apiCmi, startTime,
                 clock, nTicks, last, finished, activeSince, written, origin,
                 prior >>

InitManifest ==
    /\ InitPlayer
    /\ file = Course12.name
    /\ manifestJob \in {[pc |-> "given", pkg |-> pkg] : pkg \in Manifests}
    /\ rewriteJob = NoJob
    /\ finder = NoJob
    /\ host = NoJob

\* the manifest stage runs on the archive given
ParseManifestStep ==
    /\ manifestJob.pc = "given"
    /\ manifestJob' = [pc |-> "parsed", pkg |-> manifestJob.pkg,
                       result |-> ParseManifest(manifestJob.pkg)]
    /\ UNCHANGED playerVars
    /\ UNCHANGED << rewriteJob, finder, host >>

NextManifest == ParseManifestStep

SpecManifest == InitManifest /\ [][NextManifest]_vars

----------------------------------------------------------------------------
(* The resource table and the attribute rewrite of lines 326-514 as a
   function of the archive and of the launch document *)

\* String.prototype.substring on positions from 1, both ends included
Substring(str, from, to) == IF from > to THEN "" ELSE SubSeq(str, from, to)

CharAt(str, i) == Substring(str, i, i)

\* String.prototype.startsWith
StartsWith(str, prefix) ==
    /\ Len(str) >= Len(prefix)
    /\ Substring(str, 1, Len(prefix)) = prefix

\* String.prototype.indexOf, 0 where it gives -1
IndexOf(str, sub) ==
    LET at == {i \in 1..(Len(str) - Len(sub) + 1) :
                   Substring(str, i, i + Len(sub) - 1) = sub}
    IN  IF at = {} THEN 0 ELSE CHOOSE i \in at : \A j \in at : i <= j

\* String.prototype.lastIndexOf of one character, 0 where it gives -1
LastIndexOf(str, ch) ==
    LET at == {i \in 1..Len(str) : CharAt(str, i) = ch}
    IN  IF at = {} THEN 0 ELSE CHOOSE i \in at : \A j \in at : i >= j

\* str.replace(sub, by) with a string pattern: the first occurrence only
ReplaceFirst(str, sub, by) ==
    LET i == IndexOf(str, sub)
    IN  IF i = 0
        THEN str
        ELSE Substring(str, 1, i - 1) \o by \o Substring(str, i + Len(sub), Len(str))

\* path.replace(/^\.\//, "") and path.replace(/^\//, "")
StripLeading(path, prefix) ==
    IF StartsWith(path, prefix)
    THEN Substring(path, Len(prefix) + 1, Len(path))
    ELSE path

UpperCase == "ABCDEFGHIJKLMNOPQRSTUVWXYZ"

LowerCase == "abcdefghijklmnopqrstuvwxyz"

RECURSIVE toLowerCase(_)
\* the i flag of the regular expression of line 469
toLowerCase(str) ==
    IF Len(str) = 0
    THEN ""
    ELSE LET i == IndexOf(UpperCase, CharAt(str, 1))
         IN  (IF i = 0 THEN CharAt(str, 1) ELSE CharAt(LowerCase, i))
                 \o toLowerCase(Substring(str, 2, Len(str)))

RECURSIVE Normalized(_)
\* line 362: relativePath.replace(/\\/g, "/")
Normalized(relativePath) ==
    IF Len(relativePath) = 0
    THEN ""
    ELSE (IF CharAt(relativePath, 1) = "\\" THEN "/" ELSE CharAt(relativePath, 1))
             \o Normalized(Substring(relativePath, 2, Len(relativePath)))

\* line 369: relativePath.split(/[/\\]/).pop() || ""
Filename(relativePath) ==
    LET seps == {i \in 1..Len(relativePath) :
                     CharAt(relativePath, i) \in {"/", "\\"}}
    IN  IF seps = {}
        THEN relativePath
        ELSE Substring(relativePath,
                    (CHOOSE i \in seps : \A j \in seps : i >= j) + 1,
                    Len(relativePath))

\* line 357: URL.createObjectURL, one URL for each entry
ObjectUrl(relativePath) == "blob:app/" \o relativePath

\* new Map(), line 327
EmptyMap == [key \in {} |-> ""]

\* Map.prototype.set
MapSet(map, key, value) == (key :> value) @@ map

\* Map.prototype.get, "" for undefined
MapGet(map, key) == IF key \in DOMAIN map THEN map[key] ELSE ""

\* lines 357-372: the keys one extracted entry is stored under
Register(fileUrls, relativePath) ==
    LET blobUrl == ObjectUrl(relativePath)
        normalized == Normalized(relativePath)
        filename == Filename(relativePath)
        set1 == MapSet(fileUrls, relativePath, blobUrl)
        set2 == MapSet(set1, normalized, blobUrl)
        set3 == MapSet(set2, "/" \o normalized, blobUrl)
        set4 == MapSet(set3, "./" \o normalized, blobUrl)
    IN  IF filename # "" THEN MapSet(set4, filename, blobUrl) ELSE set4

\* lines 394-396
BasePath(launchUrl) ==
    IF Includes(launchUrl, "/")
    THEN Substring(launchUrl, 1, LastIndexOf(launchUrl, "/"))
    ELSE ""

\* lines 401-455: the script element of the API finder; it holds quoted
\* strings but no attribute the rewrite matches and no "$"
apiFinderScript ==
    "<script>(function() { console.log(\"[SCORM Content] Starting API search...\"); })();</script>"

\* lines 458-464
InsertScript(launchHtml) ==
    IF Includes(launchHtml, "<head>")
    THEN ReplaceFirst(launchHtml, "<head>", "<head>" \o apiFinderScript)
    ELSE IF Includes(launchHtml, "<html>")
    THEN ReplaceFirst(launchHtml, "<html>", "<html>" \o apiFinderScript)
    ELSE apiFinderScript \o launchHtml

\* lines 511-514
InsertBase(launchHtml) ==
    IF Includes(launchHtml, "<head>") /\ ~Includes(launchHtml, "<base")
    THEN ReplaceFirst(launchHtml, "<head>", "<head><base href=\"blob:\">")
    ELSE launchHtml

\* line 469: the attribute names of the regular expression
AttrNames == << "src", "href", "data", "poster", "background" >>

\* line 469: ["']
QuoteChars == {"\"", "'"}

\* the first quote character at or after position i, 0 when there is none
ValueEnd(str, i) ==
    LET at == {j \in i..Len(str) : CharAt(str, j) \in QuoteChars}
    IN  IF at = {} THEN 0 ELSE CHOOSE j \in at : \A k \in at : j <= k

NoMatch == [found |-> FALSE]

\* line 469: /(src|href|data|poster|background)=["']([^"']+)["']/gi tried at
\* position i: the name in any case, "=", a quote, one or more characters
\* that are not quotes, a quote of either kind
MatchAt(str, i) ==
    LET names == {k \in 1..Len(AttrNames) :
                     /\ i + Len(AttrNames[k]) + 1 <= Len(str)
                     /\ toLowerCase(Substring(str, i, i + Len(AttrNames[k]) - 1))
                            = AttrNames[k]
                     /\ CharAt(str, i + Len(AttrNames[k])) = "="
                     /\ CharAt(str, i + Len(AttrNames[k]) + 1) \in QuoteChars}
    IN  IF names = {}
        THEN NoMatch
        ELSE LET k == CHOOSE n \in names : TRUE
                 start == i + Len(AttrNames[k]) + 2
                 end == ValueEnd(str, start)
             IN  IF end = 0 \/ end = start
                 THEN NoMatch
                 ELSE [found |-> TRUE,
                       match |-> Substring(str, i, end),
                       attr |-> Substring(str, i, i + Len(AttrNames[k]) - 1),
                       path |-> Substring(str, start, end - 1),
                       end |-> end]

\* lines 473-479: the references the callback returns as they are
SkipPrefixes ==
    {"http://", "https://", "data:", "//", "#", "javascript:", "mailto:"}

Skipped(path) == \E prefix \in SkipPrefixes : StartsWith(path, prefix)

\* the candidates in the order base path first, as-written forms after
pathVariations_BaseFirst(path, basePath) ==
    << path,
       basePath \o path,
       StripLeading(path, "./"),
       basePath \o StripLeading(path, "./"),
       StripLeading(path, "/") >>

\* lines 485-492
pathVariations(path, basePath) ==
    << path,
       StripLeading(path, "./"),
       StripLeading(path, "/"),
       basePath \o path,
       basePath \o StripLeading(path, "./"),
       basePath \o StripLeading(path, "/") >>

\* lines 494-501: the URL of the first variant the table has, "" for none
Resolve(path, basePath, fileUrls) ==
    LET variants == pathVariations(path, basePath)
        hits == {k \in 1..Len(variants) : MapGet(fileUrls, variants[k]) # ""}
    IN  IF hits = {}
        THEN ""
        ELSE MapGet(fileUrls, variants[CHOOSE k \in hits : \A j \in hits : k <= j])

\* the attribute that could not be resolved taken out of the document
Unresolved_Dropped(match) == ""

\* lines 503-504: a warning is logged and the match is returned
Unresolved(match) == match

\* the callback storing what it resolved, or failed to, in the table
Callback_Caching(match, attr, path, basePath, fileUrls) ==
    IF Skipped(path)
    THEN [text |-> match, url |-> "", fileUrls |-> fileUrls]
    ELSE LET url == Resolve(path, basePath, fileUrls)
         IN  IF url # ""
             THEN [text |-> attr \o "=\"" \o url \o "\"", url |-> url,
                   fileUrls |-> MapSet(fileUrls, path, url)]
             ELSE [text |-> match, url |-> "",
                   fileUrls |-> MapSet(fileUrls, path, ObjectUrl("placeholder"))]

\* lines 470-506: the replacement callback: the text that takes the place of
\* the match, the URL when the reference was resolved, the table after
Callback(match, attr, path, basePath, fileUrls) ==
    IF Skipped(path)
    THEN [text |-> match, url |-> "", fileUrls |-> fileUrls]
    ELSE LET url == Resolve(path, basePath, fileUrls)
         IN  IF url # ""
             THEN [text |-> attr \o "=\"" \o url \o "\"", url |-> url,
                   fileUrls |-> fileUrls]
             ELSE [text |-> Unresolved(match), url |-> "",
                   fileUrls |-> fileUrls]

\* the leftmost position at or after i where the expression matches, 0
\* when it matches nowhere
NextMatch(str, i) ==
    LET at == {j \in i..Len(str) : MatchAt(str, j).found}
    IN  IF at = {} THEN 0 ELSE CHOOSE j \in at : \A k \in at : j <= k

RECURSIVE ReplaceAll(_, _, _, _)
\* lines 468-507: String.prototype.replace with the global regular
\* expression, from position i on; acc is the text produced so far, the
\* calls of the callback and the table
ReplaceAll(str, i, basePath, acc) ==
    LET j == NextMatch(str, i)
    IN  IF j = 0
        THEN [acc EXCEPT !.out = @ \o Substring(str, i, Len(str))]
        ELSE LET m == MatchAt(str, j)
                 r == Callback(m.match, m.attr, m.path, basePath, acc.fileUrls)
             IN  ReplaceAll(str, m.end + 1, basePath,
                            [out |-> acc.out \o Substring(str, i, j - 1) \o r.text,
                             log |-> Append(acc.log,
                                            [match |-> m.match,
                                             path |-> m.path,
                                             text |-> r.text,
                                             url |-> r.url]),
                             fileUrls |-> r.fileUrls])

\* a launch document is written as a sequence of pieces: text, attributes
\* and url(...) references of style sheets
Text(text) == [kind |-> "text", text |-> text]

Attr(name, quote, value) ==
    [kind |-> "attr", name |-> name, quote |-> quote, value |-> value]

\* a url(...) reference of a style sheet
Css(value) == [kind |-> "css", value |-> value]

\* a piece as it stands in the document
Render(piece) ==
    IF piece.kind = "text"
    THEN piece.text
    ELSE IF piece.kind = "css"
    THEN "url(" \o piece.value \o ")"
    ELSE piece.name \o "=" \o piece.quote \o piece.value \o piece.quote

RECURSIVE Html(_)
\* line 390: the text of the launch file
Html(doc) == IF doc = << >> THEN "" ELSE Render(Head(doc)) \o Html(Tail(doc))

\* the archives whose entries are registered: the launch file at the root
\* and in a folder, entries of one filename in two folders, an entry written
\* with a backslash, an entry whose name begins like a URL, an entry whose
\* name has a "." segment, an entry at the root with the filename of an entry
\* in a folder
Archives ==
    {[launchUrl |-> "index.html",
      files |-> {"imsmanifest.xml", "index.html", "b.png", "blob:logo.png"}],
     [launchUrl |-> "content/index.html",
      files |-> {"imsmanifest.xml", "content/index.html",
                 "content/img/logo.png"}],
     [launchUrl |-> "content/index.html",
      files |-> {"imsmanifest.xml", "content/index.html",
                 "content/img/logo.png", "img/logo.png"}],
     [launchUrl |-> "content/index.html",
      files |-> {"content/index.html", "content/sub/x.png",
                 "content/logo.png", "img\\logo.png"}],
     [launchUrl |-> "content/index.html",
      files |-> {"content/index.html", "content/./x.png", "img/x.png"}],
     [launchUrl |-> "index.html",
      files |-> {"index.html", "logo.png", "img/logo.png"}]}

\* the launch documents
Documents ==
    {<< Text("<html><head></head><body><img "),
        Attr("src", "\"", "./img/logo.png"),
        Text("><img "), Attr("src", "'", "missing.png"),
        Text("></body></html>") >>,
     << Text("<html><body><img "), Attr("src", "\"", "http://x.org/a.png"),
        Text("><img "), Attr("SRC", "'", "https://x.org/a.png"),
        Text("><img "), Attr("src", "\"", "data:image/png;base64,AAAA"),
        Text("><img "), Attr("src", "\"", "//x.org/a.png"),
        Text("><a "), Attr("href", "'", "#top"),
        Text("><a "), Attr("href", "\"", "javascript:void(0)"),
        Text("><a "), Attr("href", "\"", "mailto:a@x.org"),
        Text("><img "), Attr("src", "\"", "blob:logo.png"),
        Text("></body></html>") >>,
     << Text("<a "), Attr("href", "\"", "javascript:f('x');i.src='b.png'"),
        Text(">go</a>") >>,
     << Text("<body "), Attr("BACKGROUND", "\"", "b.png"),
        Text("><img "), Attr("src", "\"", "img/logo.png"),
        Text("><video "), Attr("poster", "'", "img/logo.png"),
        Text("><object "), Attr("data", "\"", "logo.png"),
        Text("></body>") >>,
     << Text("<head><base "), Attr("href", "\"", "https://x.org/"),
        Text("></head><img "), Attr("src", "\"", "/sub/x.png"),
        Text("><img "), Attr("src", "'", "./sub/x.png"),
        Text("><img "), Attr("src", "\"", "sub/x.png"),
        Text("><img "), Attr("src", "\"", "./x.png"),
        Text(">") >>,
     << Text("<html lang=\"en\"><HEAD><style>body{background:"),
        Css("b.png"),
        Text("}</style></HEAD><body style=\"background:"),
        Css("img/logo.png"),
        Text("\"><img "), Attr("src", "\"", "b.png"),
        Text("></body></html>") >>}

InitRewrite ==
    /\ InitPlayer
    /\ file = Course12.name
    /\ manifestJob = NoJob
    /\ finder = NoJob
    /\ host = NoJob
    /\ rewriteJob \in {[pc |-> "extracting", launchUrl |-> a.launchUrl,
                        archive |-> a.files, doc |-> d, registered |-> {},
                        fileUrls |-> EmptyMap, out |-> "", log |-> << >>] :
                       a \in Archives, d \in Documents}

\* lines 330-375: the blob of one entry arrives, in whatever order the
\* promises settle, and the entry is stored in the table
RegisterEntry(relativePath) ==
    /\ rewriteJob.pc = "extracting"
    /\ relativePath \in rewriteJob.archive \ rewriteJob.registered
    /\ rewriteJob' = [rewriteJob EXCEPT
                         !.registered = @ \cup {relativePath},
                         !.fileUrls = Register(@, relativePath)]
    /\ UNCHANGED playerVars
    /\ UNCHANGED << manifestJob, finder, host >>

\* lines 377-514: every entry is in the table; the launch file is read, the
\* script inserted, the attributes rewritten, the base tag added
RewriteDocument ==
    /\ rewriteJob.pc = "extracting"
    /\ rewriteJob.registered = rewriteJob.archive
    /\ rewriteJob.launchUrl \in rewriteJob.archive
    /\ LET basePath == BasePath(rewriteJob.launchUrl)
           launchHtml == InsertScript(Html(rewriteJob.doc))
           r == ReplaceAll(launchHtml, 1, basePath,
                           [out |-> "", log |-> << >>,
                            fileUrls |-> rewriteJob.fileUrls])
       IN  rewriteJob' = [rewriteJob EXCEPT
                             !.pc = "done",
                             !.out = InsertBase(r.out),
                             !.log = r.log,
                             !.fileUrls = r.fileUrls]
    /\ UNCHANGED playerVars
    /\ UNCHANGED << manifestJob, finder, host >>

NextRewrite ==
    \/ \E relativePath \in UNION {a.files : a \in Archives} :
          RegisterEntry(relativePath)
    \/ RewriteDocument

SpecRewrite == InitRewrite /\ [][NextRewrite]_vars

----------------------------------------------------------------------------
(* The script of lines 401-455 run in a content window *)

\* line 408
maxAttempts == 500

\* The windows above the content window are numbered from 1, its parent, on;
\* 0 is null.  A chain says which window is its own parent (top, 0 for a
\* chain that never reaches one), which window has a null parent (detached,
\* 0 for none) and which windows expose API and API_1484_11 (0 for none).
Chains ==
    {[top |-> t, detached |-> d, apiAt |-> a, api2004At |-> b] :
     t \in {0, 1, 3, maxAttempts + 1},
     d \in {0, 2},
     a \in {0, 1, 2, maxAttempts, maxAttempts + 1},
     b \in {0, 1, 3}}

\* win.parent
Parent(chain, win) ==
    IF win = chain.top THEN win
    ELSE IF win = chain.detached THEN 0
    ELSE win + 1

InitFinder ==
    /\ InitPlayer
    /\ file = Course12.name
    /\ manifestJob = NoJob
    /\ rewriteJob = NoJob
    /\ host = NoJob
    /\ finder \in {[pc |-> "ready", chain |-> chain, win |-> 0, attempts |-> 0,
                    API |-> 0, API_1484_11 |-> 0, calls |-> 0] :
                   chain \in Chains}

\* lines 446 and 449-453: findAPI(window.parent) is called when the script
\* runs and once more on DOMContentLoaded; lines 407-408
findAPI ==
    /\ finder.pc \in {"ready", "returned"}
    /\ finder.calls < 2
    /\ finder' = [finder EXCEPT !.pc = "loop", !.win = 1, !.attempts = 0,
                                !.calls = @ + 1]
    /\ UNCHANGED playerVars
    /\ UNCHANGED << manifestJob, rewriteJob, host >>

\* one pass of the loop that goes on at the top window
findAPIIterate_PastTop ==
    /\ finder.pc = "loop"
    /\ finder.win # 0
    /\ finder.attempts < maxAttempts
    /\ LET win == finder.win
           api == IF win = finder.chain.apiAt THEN win ELSE finder.API
           api2004 == IF win = finder.chain.api2004At
                      THEN win
                      ELSE finder.API_1484_11
       IN  finder' = [finder EXCEPT
                         !.attempts = @ + 1,
                         !.API = api,
                         !.API_1484_11 = api2004,
                         !.pc = IF api # 0 \/ api2004 # 0
                                THEN "returned"
                                ELSE "loop",
                         !.win = IF api # 0 \/ api2004 # 0
                                 THEN win
                                 ELSE Parent(finder.chain, win)]
    /\ UNCHANGED playerVars
    /\ UNCHANGED << manifestJob, rewriteJob, host >>

\* lines 410-432: one pass of the loop: the objects win exposes are bound in
\* the content window; the loop is left when one is bound or win is its own
\* parent, else win becomes its parent
findAPIIterate ==
    /\ finder.pc = "loop"
    /\ finder.win # 0
    /\ finder.attempts < maxAttempts
    /\ LET win == finder.win
           api == IF win = finder.chain.apiAt THEN win ELSE finder.API
           api2004 == IF win = finder.chain.api2004At
                      THEN win
                      ELSE finder.API_1484_11
           break == (api # 0 \/ api2004 # 0) \/ win = Parent(finder.chain, win)
       IN  finder' = [finder EXCEPT
                         !.attempts = @ + 1,
                         !.API = api,
                         !.API_1484_11 = api2004,
                         !.pc = IF break THEN "returned" ELSE "loop",
                         !.win = IF break THEN win
                                 ELSE Parent(finder.chain, win)]
    /\ UNCHANGED playerVars
    /\ UNCHANGED << manifestJob, rewriteJob, host >>

\* line 410: win is null or the attempts are used up
findAPIExit ==
    /\ finder.pc = "loop"
    /\ ~(finder.win # 0 /\ finder.attempts < maxAttempts)
    /\ finder' = [finder EXCEPT !.pc = "returned"]
    /\ UNCHANGED playerVars
    /\ UNCHANGED << manifestJob, rewriteJob, host >>

NextFinder ==
    \/ findAPI
    \/ findAPIIterate
    \/ findAPIExit

SpecFinder == InitFinder /\ [][NextFinder]_vars

----------------------------------------------------------------------------
(* The host window and the players the page mounts, one at a time *)

\* Index.tsx line 19 and ScormPlayer.tsx lines 35, 83: no player was mounted
\* yet and window.API, window.API_1484_11 are undefined (owner 0)
InitHost ==
    /\ InitPlayer
    /\ file = Course12.name
    /\ manifestJob = NoJob
    /\ rewriteJob = NoJob
    /\ finder = NoJob
    /\ host = [players |-> << >>, API |-> 0]

\* Index.tsx lines 21-25 and 100-123: a file is dropped on the upload zone,
\* which is shown only while no player is; setPlayFile mounts a new player,
\* whose effect (ScormPlayer.tsx lines 536-539) starts the load
handleFileUpload(name) ==
    /\ Len(host.players) < MaxPlayers
    /\ \A p \in DOMAIN host.players : ~host.players[p].open
    /\ host' = [host EXCEPT
                   !.players = Append(@, [open |-> TRUE, pkg |-> name,
                                          pc |-> "reading",
                                          apiInitializedRef |-> FALSE])]
    /\ UNCHANGED playerVars
    /\ UNCHANGED << manifestJob, rewriteJob, finder >>

\* Index.tsx line 123 (onClose) and lines 43-47 (handleModeSwitch):
\* setPlayFile(null) unmounts the player; the cleanup of lines 541-545
\* revokes URLs and leaves the window and the load alone
onClose(p) ==
    /\ host.players[p].open
    /\ host' = [host EXCEPT !.players[p].open = FALSE]
    /\ UNCHANGED playerVars
    /\ UNCHANGED << manifestJob, rewriteJob, finder >>

\* lines 278-324 and 80-91: the load of player p, open or closed, has parsed
\* its manifest and calls setupScormAPI, which assigns window.API and
\* window.API_1484_11 unless the ref of that player is set
HostLoadManifest(p) ==
    /\ host.players[p].pc = "reading"
    /\ ManifestParsed(PackageOf(host.players[p].pkg))
    /\ host' = [host EXCEPT
                   !.players[p].pc = "set",
                   !.players[p].apiInitializedRef = TRUE,
                   !.API = IF ~host.players[p].apiInitializedRef THEN p ELSE @]
    /\ UNCHANGED playerVars
    /\ UNCHANGED << manifestJob, rewriteJob, finder >>

\* lines 278-310, 526-534: the load of player p fails before setupScormAPI
HostLoadFail(p) ==
    /\ host.players[p].pc = "reading"
    /\ ~ManifestParsed(PackageOf(host.players[p].pkg))
    /\ host' = [host EXCEPT !.players[p].pc = "failed"]
    /\ UNCHANGED playerVars
    /\ UNCHANGED << manifestJob, rewriteJob, finder >>

NextHost ==
    \/ \E name \in PackageNames : handleFileUpload(name)
    \/ \E p \in DOMAIN host.players :
          \/ onClose(p)
          \/ HostLoadManifest(p)
          \/ HostLoadFail(p)

SpecHost == InitHost /\ [][NextHost]_vars

\* the steps of a load
Load ==
    \/ LoadStart
    \/ \E l \in 1..Len(loads) : LoadManifest(l)
    \/ \E l \in 1..Len(loads) :
           \E path \in PackageOf(loads[l].pkg).files : ExtractEntry(l, path)
    \/ \E l \in 1..Len(loads) : LoadFinish(l)
    \/ \E l \in 1..Len(loads) : LoadFail(l)

\* the session protocol: every call of both API objects, with the clock
\* standing still
Next ==
    \/ Load
    \/ handleRestart
    \/ LMSInitialize
    \/ LMSFinish
    \/ \E element \in Elements : LMSGetValue(element)
    \/ \E element \in SetElements, value \in Values : LMSSetValue(element, value)
    \/ LMSCommit
    \/ LMSGetLastError
    \/ \E errorCode \in Codes : LMSGetErrorString(errorCode)
    \/ \E errorCode \in Codes : LMSGetDiagnostic(errorCode)
    \/ Initialize
    \/ Terminate
    \/ \E element \in Elements : GetValue(element)
    \/ \E element \in SetElements, value \in Values : SetValue(element, value)
    \/ Commit
    \/ GetLastError
    \/ \E errorCode \in Codes : GetErrorString(errorCode)
    \/ \E errorCode \in Codes : GetDiagnostic(errorCode)

Spec == Init /\ [][Next]_vars

\* the session clock: the calls that start and end a session, with time
\* passing between them
NextTime ==
    \/ Load
    \/ handleRestart
    \/ \E d \in TickSteps : Tick(d)
    \/ LMSInitialize
    \/ LMSFinish
    \/ Initialize
    \/ Terminate

SpecTime == Init /\ [][NextTime]_vars

\* the loads of a player whose file changes and that is closed
NextLoad ==
    \/ Load
    \/ \E name \in PackageNames : ChangeFile(name)
    \/ Close

SpecLoad == Init /\ [][NextLoad]_vars

\* a step of the l-th call of loadScormPackage
LoadStep(l) ==
    /\ l <= Len(loads)
    /\ \/ LoadManifest(l)
       \/ \E path \in PackageOf(loads[l].pkg).files : ExtractEntry(l, path)
       \/ LoadFinish(l)
       \/ LoadFail(l)

\* the loads of a player that is given one more file, one that loads or one
\* that does not, and that is closed
NextLoadFair ==
    \/ Load
    \/ \E name \in {Course2004.name, NoManifest.name} : ChangeFile(name)
    \/ Close

\* every awaited read of the archive settles (JSZip.loadAsync and
\* file.async, lines 278, 287, 334, 380, 389, 390), and the mount effect runs
SpecLoadFair ==
    /\ Init
    /\ [][NextLoadFair]_vars
    /\ WF_vars(LoadStart)
    /\ \A l \in 1..MaxLoads : WF_vars(LoadStep(l))

\* the same, with the content of the package on show starting its session
NextReload ==
    \/ NextLoad
    \/ LMSInitialize

SpecReload == Init /\ [][NextReload]_vars

----------------------------------------------------------------------------
(* Properties of the session protocol *)

\* the session states of the protocol, from the flag of line 85 and the history
Uninitialized == ~initialized /\ ~finished
Active == initialized
Terminated == ~initialized /\ finished

\* C1: in an Active session, after a Set of key k to v has succeeded, a Get
\* of k with no later Set to k returns v (either API object, any key).
C1_SetThenGet ==
    (last.op = "GetValue" /\ last.ok /\ last.arg \in DOMAIN written)
        => last.ret = written[last.arg]

\* C2: when the session is not Active, Get returns "" and Set returns
\* "false", the last-error code becomes the "not initialized" code of the
\* version (301; 122 for GetValue and 132 for SetValue) and is never "0", and
\* Set stores nothing.
C2_NotActiveFails ==
    /\ [](/\ (last.op = "GetValue" /\ ~last.preInit)
                => /\ last.ret = ""
                   /\ lastError = (IF last.api = "API" THEN "301" ELSE "122")
                   /\ lastError # "0"
          /\ (last.op = "SetValue" /\ ~last.preInit)
                => /\ last.ret = "false"
                   /\ lastError = (IF last.api = "API" THEN "301" ELSE "132")
                   /\ lastError # "0")
    /\ [][\A element \in SetElements, value \in Values :
            (~initialized /\ (LMSSetValue(element, value) \/ SetValue(element, value)))
                => (cmiData' = cmiData /\ apiCmi' = apiCmi)]_vars

\* C2 happens: a SetValue of the 2004 object after a Terminate was refused
C2_Witness ==
    /\ last.op = "SetValue" /\ last.api = "API_1484_11"
    /\ ~last.preInit /\ last.preFin
    /\ last.ret = "false"

\* C3: an Initialize while the session is Active returns "false", sets the
\* code the version uses for "already initialized" (101; 103), leaves the
\* session Active and leaves every data-model value as it was.
C3_SecondInitialize ==
    /\ []((last.op = "Initialize" /\ last.preInit)
            => /\ last.ret = "false"
               /\ lastError = (IF last.api = "API" THEN "101" ELSE "103")
               /\ Active)
    /\ [][(initialized /\ (LMSInitialize \/ Initialize))
            => (initialized' /\ cmiData' = cmiData /\ apiCmi' = apiCmi)]_vars

\* C3 happens: Initialize of the 2004 object was refused in an Active session
\* in which the content had stored a value
C3_Witness ==
    /\ last.op = "Initialize" /\ last.api = "API_1484_11" /\ last.preInit
    /\ written # EmptyObject
    /\ last.ret = "false"

\* C4: a Terminate made while Active succeeds and moves the session to
\* Terminated, and every Get or Set made after it in the session fails.
C4_TerminateThenFail ==
    /\ (last.op = "Terminate" /\ last.preInit)
          => (last.ret = "true" /\ Terminated)
    /\ (last.op \in {"GetValue", "SetValue"} /\ last.preFin) => ~last.ok

\* C5: in one session Initialize succeeds once: it never succeeds after an
\* earlier success, whether the session is still Active or was terminated.
C5_InitializeOnce ==
    (last.op = "Initialize" /\ last.ret = "true") => (~last.preInit /\ ~last.preFin)

\* the failure code each call is to set: for SCORM 1.2, 101 for an Initialize
\* and 301 for the rest; for SCORM 2004, 103, 112, 122, 132 and 142
FailureCode(api, op) ==
    IF api = "API"
    THEN (IF op = "Initialize" THEN "101" ELSE "301")
    ELSE CASE op = "Initialize" -> "103"
           [] op = "Terminate" -> "112"
           [] op = "GetValue" -> "122"
           [] op = "SetValue" -> "132"
           [] op = "Commit" -> "142"

\* the call returned its success value (for a Get: took its success path)
Succeeded(call) == IF call.op = "GetValue" THEN call.ok ELSE call.ret = "true"

\* C6: a Terminate while the session is Uninitialized returns "false", sets
\* the code the version uses for "termination before initialization" (301;
\* 112), leaves the session Uninitialized and stores no session duration.
C6_TerminateUninitialized ==
    /\ []((last.op = "Terminate" /\ ~last.preInit /\ ~last.preFin)
            => /\ last.ret = "false"
               /\ lastError = (IF last.api = "API" THEN "301" ELSE "112")
               /\ Uninitialized)
    /\ [][(Uninitialized /\ (LMSFinish \/ Terminate))
            => (cmiData' = cmiData /\ ~initialized' /\ ~finished')]_vars

\* C6 happens: LMSFinish was refused in a session never initialized, some
\* time after the player was opened
C6_Witness ==
    /\ last.op = "Terminate" /\ last.api = "API"
    /\ ~last.preInit /\ ~last.preFin
    /\ last.ret = "false"
    /\ clock > startTime

\* C7: the last-error code is "0" before any call; after an Initialize,
\* Terminate, Get, Set or Commit it is "0" exactly when the call succeeded and
\* the failure code of that call otherwise; GetLastError returns it, and
\* GetLastError, GetErrorString and GetDiagnostic do not change it.
C7_LastError ==
    /\ [](/\ (apiInstalled /\ last.op = "none") => lastError = "0"
          /\ last.op \in {"Initialize", "Terminate", "GetValue", "SetValue", "Commit"}
                => /\ (lastError = "0") <=> Succeeded(last)
                   /\ ~Succeeded(last) => lastError = FailureCode(last.api, last.op))
    /\ [][/\ (LMSGetLastError \/ GetLastError)
                => (last'.ret = lastError /\ lastError' = lastError)
          /\ (\E errorCode \in Codes :
                \/ LMSGetErrorString(errorCode) \/ GetErrorString(errorCode)
                \/ LMSGetDiagnostic(errorCode) \/ GetDiagnostic(errorCode))
                => lastError' = lastError]_vars

\* C7 happens: GetLastError returned the code of a SetValue that was refused
C7_Witness ==
    /\ last.op = "GetLastError" /\ last.api = "API_1484_11"
    /\ last.ret = "132"
    /\ lastError = "132"

\* C8: Commit returns "true" exactly when the session is Active, otherwise
\* "false" with the code the version uses for "commit before initialization"
\* (301; 142); it changes neither the session state nor the data model.
C8_Commit ==
    /\ [](last.op = "Commit"
            => /\ (last.ret = "true") <=> last.preInit
               /\ ~last.preInit
                    => /\ last.ret = "false"
                       /\ lastError = (IF last.api = "API" THEN "301" ELSE "142"))
    /\ [][(LMSCommit \/ Commit)
            => /\ initialized' = initialized
               /\ finished' = finished
               /\ cmiData' = cmiData
               /\ apiCmi' = apiCmi]_vars

\* C8 happens: Commit of the 2004 object was refused after a Terminate, in a
\* session in which the content had stored a value
C8_Witness ==
    /\ last.op = "Commit" /\ last.api = "API_1484_11"
    /\ ~last.preInit /\ last.preFin
    /\ written # EmptyObject
    /\ last.ret = "false"

\* the error-string table of the API object called
ErrorTable(api) == IF api = "API" THEN Errors12 ELSE Errors2004

\* C9: for every error code that is not an entry of the version's table, both
\* GetErrorString and GetDiagnostic return the empty string.
C9_UnknownCodeEmpty ==
    (last.op \in {"GetErrorString", "GetDiagnostic"}
        /\ last.arg \notin DOMAIN ErrorTable(last.api))
        => last.ret = ""

\* C9 as amended: for every error code that is neither an entry of the
\* version's table nor a property name every JavaScript object inherits,
\* GetErrorString returns the empty string; GetDiagnostic returns
\* "Diagnostic for " followed by the code, for every code, never the empty
\* string.
C9_UnknownCodeAmended ==
    /\ (last.op = "GetErrorString"
          /\ last.arg \notin DOMAIN ErrorTable(last.api)
          /\ last.arg \notin ProtoKeys)
          => last.ret = ""
    /\ last.op = "GetDiagnostic"
          => (last.ret = "Diagnostic for " \o last.arg /\ last.ret # "")

\* C9 happens: LMSGetErrorString was asked about a code of the 2004 table
C9_Witness ==
    /\ last.op = "GetErrorString" /\ last.api = "API"
    /\ last.arg = "103"
    /\ last.ret = ""

\* the value of a decimal digit
DigitValue(c) ==
    CASE c = "0" -> 0 [] c = "1" -> 1 [] c = "2" -> 2 [] c = "3" -> 3
      [] c = "4" -> 4 [] c = "5" -> 5 [] c = "6" -> 6 [] c = "7" -> 7
      [] c = "8" -> 8 [] c = "9" -> 9

\* s is a non-empty string of decimal digits
IsDigits(s) ==
    /\ Len(s) > 0
    /\ \A i \in 1..Len(s) :
          SubSeq(s, i, i) \in {"0", "1", "2", "3", "4", "5", "6", "7", "8", "9"}

\* the number a string of decimal digits writes
RECURSIVE ParseNat(_)
ParseNat(s) ==
    IF Len(s) = 0
    THEN 0
    ELSE 10 * ParseNat(SubSeq(s, 1, Len(s) - 1)) + DigitValue(SubSeq(s, Len(s), Len(s)))

\* hours h, minutes m and seconds s make e seconds
EncodesSeconds(h, m, s, e) ==
    /\ h * 3600 + m * 60 + s = e
    /\ 0 <= m /\ m < 60
    /\ 0 <= s /\ s < 60

\* str is HH:MM:SS (two-digit minutes and seconds, hours of two digits or
\* more) and encodes e seconds
IsTimespan12(str, e) ==
    LET n == Len(str)
    IN  /\ n >= 8
        /\ SubSeq(str, n - 2, n - 2) = ":"
        /\ SubSeq(str, n - 5, n - 5) = ":"
        /\ IsDigits(SubSeq(str, 1, n - 6))
        /\ IsDigits(SubSeq(str, n - 4, n - 3))
        /\ IsDigits(SubSeq(str, n - 1, n))
        /\ EncodesSeconds(ParseNat(SubSeq(str, 1, n - 6)),
                          ParseNat(SubSeq(str, n - 4, n - 3)),
                          ParseNat(SubSeq(str, n - 1, n)), e)

\* str is PT{h}H{m}M{s}S and encodes e seconds
IsDuration2004(str, e) ==
    LET n == Len(str)
    IN  /\ n >= 8
        /\ SubSeq(str, 1, 2) = "PT"
        /\ SubSeq(str, n, n) = "S"
        /\ \E i \in 4..(n - 4) : \E j \in (i + 2)..(n - 2) :
              /\ SubSeq(str, i, i) = "H"
              /\ SubSeq(str, j, j) = "M"
              /\ IsDigits(SubSeq(str, 3, i - 1))
              /\ IsDigits(SubSeq(str, i + 1, j - 1))
              /\ IsDigits(SubSeq(str, j + 1, n - 1))
              /\ EncodesSeconds(ParseNat(SubSeq(str, 3, i - 1)),
                                ParseNat(SubSeq(str, i + 1, j - 1)),
                                ParseNat(SubSeq(str, j + 1, n - 1)), e)

\* whole seconds between the successful Initialize and now
SecondsActive == (clock - activeSince) \div 1000

\* C10: the session time a successful Terminate stores encodes the e >= 0
\* whole seconds elapsed since the successful Initialize as hours, minutes
\* and seconds with h*3600 + m*60 + s = e, m < 60, s < 60: zero-padded
\* HH:MM:SS under cmi.core.session_time by LMSFinish, PT{h}H{m}M{s}S under
\* cmi.session_time by Terminate.
C10_SessionTime ==
    [][/\ (initialized /\ LMSFinish)
            => IsTimespan12(cmiData'["cmi.core.session_time"], SecondsActive)
       /\ (initialized /\ Terminate)
            => IsDuration2004(cmiData'["cmi.session_time"], SecondsActive)]_vars

\* C10 happens: LMSFinish stored a session of 1 h 2 min 0 s
C10_Witness ==
    /\ last.op = "Terminate" /\ last.api = "API" /\ last.ret = "true"
    /\ "cmi.core.session_time" \in DOMAIN cmiData
    /\ cmiData["cmi.core.session_time"] = "01:02:00"
    /\ clock - activeSince = 3720000

----------------------------------------------------------------------------
(* The data model behind the session *)

\* the value the data model of the player holds for a key, "" for none
Stored(element) == IF element \in DOMAIN cmiData THEN cmiData[element] ELSE ""

\* C11: in an Active session that a package load created, Get of a key the
\* content has not set returns the value the data model holds for it: the
\* default that the version seeds (the learner id, the score bounds), and ""
\* for a key that was never set.
C11_GetUnsetKey ==
    (/\ origin = "load"
     /\ last.op = "GetValue"
     /\ last.ok
     /\ last.arg \notin DOMAIN written)
        => last.ret = Stored(last.arg)

\* C12: after a restart the session is new: it is Uninitialized with
\* last-error "0" and the data model holds the defaults of the version, and
\* no Get of the new session returns a value that a Set of the session
\* before the restart wrote.
C12_RestartFreshSession ==
    origin = "restart" =>
        /\ last.op = "none" =>
              /\ Uninitialized
              /\ lastError = "0"
              /\ cmiData = initializeCMIData(scormVersion)
        /\ (/\ last.op = "GetValue"
            /\ last.arg \in DOMAIN prior
            /\ last.arg \notin DOMAIN written)
              => last.ret # prior[last.arg]

\* C14: a call has made its state changes when it returns: once Initialize
\* (LMSInitialize) has returned "true" the session is Active with last-error
\* "0", and a Get or Set that is the next call is accepted as Active and
\* leaves last-error "0".
C14_CommittedOnReturn ==
    /\ []((last.op = "Initialize" /\ last.ret = "true")
              => (initialized /\ lastError = "0"))
    /\ [][(/\ last.op = "Initialize"
           /\ last.ret = "true"
           /\ last'.op \in {"GetValue", "SetValue"})
              => /\ last'.preInit
                 /\ last'.ok
                 /\ last'.op = "SetValue" => last'.ret = "true"
                 /\ lastError' = "0"]_vars

\* C14 happens: LMSInitialize has just returned "true" to the running
\* content, whose next call can be a Get or a Set
C14_Witness ==
    /\ ContentRunning
    /\ last.op = "Initialize"
    /\ last.api = "API"
    /\ last.ret = "true"
    /\ initialized

----------------------------------------------------------------------------
(* Another package in the same player *)

\* C13: when another package is loaded in the player, the session its
\* content talks to starts Uninitialized with last-error "0" and the defaults
\* of that package's version, whatever the content of the package before it
\* called: no session flag, error code or data value carries over.  Stated
\* for a load that finishes when no earlier load is in flight any more.
C13_NextPackageFreshSession ==
    [][\A l \in 2..Len(loads) :
          (/\ mounted
           /\ \A k \in 1..(l - 1) : ~InFlight(k)
           /\ LoadFinish(l))
              => /\ ~initialized'
                 /\ ~finished'
                 /\ lastError' = "0"
                 /\ cmiData' = initializeCMIData(DetectVersion(PackageOf(loads[l].pkg)))
                 /\ apiCmi' \in {EmptyObject, cmiData'}]_vars

----------------------------------------------------------------------------
(* The URLs of a load *)

\* the URLs created so far: one for every extracted entry of every load and
\* one for the document of every load that succeeded
Created ==
    UNION {{EntryUrl(l, path) : path \in loads[l].extracted}
             \cup (IF loads[l].pc = "done" THEN {DocumentUrl(l)} ELSE {}) :
           l \in 1..Len(loads)}

\* C15: every URL created during a load, one for each extracted entry and
\* one for the rewritten document, is recorded in blobUrlsRef.current, and
\* when another package is loaded or the player is torn down every URL in
\* that collection is released and the collection is emptied.
C15_TrackedAndReleased ==
    /\ [](Created \subseteq (blobUrlsRef \cup released))
    /\ [][\A l \in 1..Len(loads) :
            /\ \A path \in PackageOf(loads[l].pkg).files :
                  ExtractEntry(l, path) => EntryUrl(l, path) \in blobUrlsRef'
            /\ LoadFinish(l) => DocumentUrl(l) \in blobUrlsRef']_vars
    /\ [][((\E name \in PackageNames : ChangeFile(name)) \/ Close)
             => /\ blobUrlsRef \subseteq released'
                /\ blobUrlsRef' = {}]_vars

\* C15 happens: the URLs of a completed load, its document's among them,
\* were released when the player was given another package
C15_Witness ==
    /\ Len(loads) = 2
    /\ loads[1].pc = "done"
    /\ DocumentUrl(1) \in released
    /\ \A path \in loads[1].extracted : EntryUrl(1, path) \in released
    /\ blobUrlsRef = {}

\* C16: on restart every URL held for the current load is released before
\* the rendering context is rebuilt, and the context shown after the restart
\* uses only URLs that have not been released.
C16_RestartReleases ==
    [][(handleRestart /\ iframeSrc # NoUrl)
          => /\ blobUrlsRef \subseteq released'
             /\ iframeSrc' \notin released']_vars

\* C16 as the code has it: a restart releases no URL and creates none; the
\* iframe is reloaded from the document URL it had, and the URLs of the load
\* stay in blobUrlsRef.current until another package is loaded or the player
\* is torn down.
C16_RestartKeepsUrls ==
    [][handleRestart
          => /\ released' = released
             /\ blobUrlsRef' = blobUrlsRef
             /\ iframeSrc' = iframeSrc
             /\ Created' = Created]_vars

\* C16 happens: the player was restarted and shows the document of its load
\* again, with every URL of the load still held and none released
C16_Witness ==
    /\ origin = "restart"
    /\ ContentRunning
    /\ iframeSrc \in blobUrlsRef
    /\ Created = blobUrlsRef
    /\ released = {}

\* C17: when a load is superseded, by another package given to the player or
\* by its closing while the load is in flight, every URL the load creates,
\* those it creates after being superseded included, is eventually released.
\* Stated for a closed player all of whose loads have completed: from there
\* on no step is taken, so what is not released then never is.
C17_SupersededReleased ==
    (~mounted /\ \A l \in 1..Len(loads) : ~InFlight(l))
        => Created \subseteq released

\* C18: at most one load is in flight in a player at any time.
C18_OneLoadInFlight ==
    Cardinality({l \in 1..Len(loads) : InFlight(l)}) <= 1

\* C19: every load that is started completes, as a success or as a failure,
\* and its completion clears the loading flag: a mounted player whose loads
\* have all completed is not loading.
C19_LoadCompletes ==
    /\ \A l \in 1..MaxLoads :
          (l <= Len(loads)) ~> (l <= Len(loads) /\ ~InFlight(l))
    /\ [][\A l \in 1..Len(loads) :
            (mounted /\ (LoadFinish(l) \/ LoadFail(l))) => ~isLoading']_vars
    /\ []((mounted /\ loads # << >> /\ \A l \in 1..Len(loads) : ~InFlight(l))
             => ~isLoading)

\* C19 happens: a load has failed and the mounted player is not loading
C19_Witness ==
    /\ mounted
    /\ \E l \in 1..Len(loads) : loads[l].pc = "failed"
    /\ \A l \in 1..Len(loads) : ~InFlight(l)
    /\ ~isLoading

\* C20: whenever a load succeeds the detected version is "1.2" or "2004" and
\* the launch path is the path of an entry of the package; when the launch
\* path names no entry the load fails and no document is produced.
C20_LaunchFileExists ==
    \A l \in 1..Len(loads) :
        LET pkg == PackageOf(loads[l].pkg)
        IN  /\ loads[l].pc = "done"
               => /\ DetectVersion(pkg) \in Versions
                  /\ LaunchUrl(pkg) \in pkg.files
                  /\ mounted => scormVersion \in Versions
            /\ (ManifestParsed(pkg) /\ LaunchUrl(pkg) \notin pkg.files)
               => /\ loads[l].pc # "done"
                  /\ DocumentUrl(l) \notin (blobUrlsRef \cup released)
                  /\ iframeSrc # DocumentUrl(l)

\* C20 happens: the load of an archive whose launch path names no entry
\* failed after the extraction, and the load of the next archive succeeded
C20_Witness ==
    /\ Len(loads) = 2
    /\ loads[1].pkg = NoLaunchFile.name
    /\ loads[1].extracted = NoLaunchFile.files
    /\ loads[1].pc = "failed"
    /\ loads[2].pc = "done"
    /\ iframeSrc = DocumentUrl(2)

----------------------------------------------------------------------------
(* The manifest *)

\* the organizations whose identifier is the default attribute
Named(pkg) ==
    {i \in 1..Len(pkg.organizations) :
         pkg.organizations[i].identifier = pkg.default}

\* the organization the claims select: the one named by the default
\* attribute wherever it stands, the first one when none is named
Selected(pkg) ==
    IF Named(pkg) # {}
    THEN pkg.organizations[CHOOSE i \in Named(pkg) : TRUE]
    ELSE pkg.organizations[1]

\* the selected organization has an item with an identifierref
HasLaunchItem(pkg) ==
    /\ Len(pkg.organizations) > 0
    /\ Len(Selected(pkg).identifierrefs) > 0

\* that identifierref is the identifier of a resource
ChainResolved(pkg) ==
    /\ HasLaunchItem(pkg)
    /\ \E i \in 1..Len(pkg.resources) :
          pkg.resources[i].identifier = Selected(pkg).identifierrefs[1]

\* C21: the manifest stage fails the load when the archive has no
\* imsmanifest.xml, and fails with the missing-launch-resource error when the
\* selected organization has no item with an identifierref and also when
\* that identifierref is the identifier of no resource.
C21_ManifestErrors ==
    manifestJob.pc = "parsed" =>
        LET pkg == manifestJob.pkg
            result == manifestJob.result
        IN  /\ ~HasManifest(pkg) => ~result.ok
            /\ (HasManifest(pkg) /\ ~HasLaunchItem(pkg))
                  => result.error = "No launch resource found in manifest"
            /\ (HasManifest(pkg) /\ HasLaunchItem(pkg) /\ ~ChainResolved(pkg))
                  => result.error = "No launch resource found in manifest"

\* the schemaversion texts that contain "2004"
With2004 == {"2004 3rd Edition", "ADL SCORM 2004 4th Edition"}

\* C23: the detected version is "2004" exactly when a schemaversion element
\* exists and the text of the one the parser locates, the first in document
\* order, contains "2004"; in every other case, no schemaversion element
\* included, it is "1.2".
C23_VersionDetection ==
    (manifestJob.pc = "parsed" /\ manifestJob.result.ok) =>
        LET sv == manifestJob.pkg.schemaversion
        IN  manifestJob.result.version =
                (IF Len(sv) > 0 /\ sv[1] \in With2004 THEN "2004" ELSE "1.2")

\* C23 happens: a text with "2004" in its middle was read as version 2004
C23_Witness ==
    /\ manifestJob.pc = "parsed"
    /\ manifestJob.pkg.schemaversion = << "ADL SCORM 2004 4th Edition" >>
    /\ manifestJob.result.version = "2004"

\* C24: when the default attribute of organizations is the identifier of an
\* organization, that organization is selected whatever its position; only
\* when none matches is the first organization selected.  The launch item is
\* the first item with an identifierref of the selected organization; with
\* no such item, or an empty identifierref on it, the stage fails.
C24_OrganizationSelection ==
    (manifestJob.pc = "parsed" /\ HasManifest(manifestJob.pkg)) =>
        LET pkg == manifestJob.pkg
        IN  IF HasLaunchItem(pkg) /\ Selected(pkg).identifierrefs[1] # ""
            THEN /\ manifestJob.result.ok
                 /\ manifestJob.result.resourceRef = Selected(pkg).identifierrefs[1]
            ELSE ~manifestJob.result.ok

\* C24 happens: the default organization stands second and its first item,
\* not the first organization's, gave the resource reference
C24_Witness ==
    /\ manifestJob.pc = "parsed"
    /\ manifestJob.pkg.default = "ORG-B"
    /\ Len(manifestJob.pkg.organizations) = 2
    /\ manifestJob.pkg.organizations[1].identifierrefs = << "RES-1" >>
    /\ manifestJob.pkg.organizations[2].identifier = "ORG-B"
    /\ manifestJob.pkg.organizations[2].identifierrefs = << "RES-2", "RES-1" >>
    /\ manifestJob.result.resourceRef = "RES-2"

----------------------------------------------------------------------------
(* The failure state *)

\* C22: when a load fails and no other load of the player is in flight,
\* loading has ended and the player renders no document (lines 637-657
\* render the iframe whenever iframeSrc is set), in particular not the
\* document of a package loaded earlier in the same player.
C22_FailedLoadShowsNoDocument ==
    [][\A l \in 1..Len(loads) :
          (/\ mounted
           /\ \A k \in 1..Len(loads) : k # l => ~InFlight(k)
           /\ LoadFail(l))
              => /\ ~isLoading'
                 /\ iframeSrc' = NoUrl]_vars

----------------------------------------------------------------------------
(* The attribute rewrite *)

\* the references the claims leave alone
ClaimedPrefixes ==
    {"http://", "https://", "data:", "blob:", "//", "#", "javascript:",
     "mailto:"}

\* C25: a reference that starts with http://, https://, data:, blob:, //,
\* #, javascript: or mailto: is never resolved to a URL and never rewritten,
\* whatever keys the table has.
C25_SchemesNeverResolved ==
    rewriteJob.pc = "done" =>
        \A i \in DOMAIN rewriteJob.log :
            (\E prefix \in ClaimedPrefixes :
                 StartsWith(rewriteJob.log[i].path, prefix))
                => /\ rewriteJob.log[i].url = ""
                   /\ rewriteJob.log[i].text = rewriteJob.log[i].match

\* the prefixes whose attributes the claims keep byte for byte
PreservedPrefixes == {"http://", "https://", "data:", "#", "javascript:"}

\* C26: every src, href, data, poster or background attribute of the launch
\* document whose value begins with http://, https://, data:, # or
\* javascript: stands in the rewritten document as it was written: name,
\* quotes and value.
C26_UntouchedByteIdentical ==
    rewriteJob.pc = "done" =>
        \A i \in DOMAIN rewriteJob.doc :
            (/\ rewriteJob.doc[i].kind = "attr"
             /\ \E prefix \in PreservedPrefixes :
                   StartsWith(rewriteJob.doc[i].value, prefix))
                => Includes(rewriteJob.out, Render(rewriteJob.doc[i]))

\* the reference is a key of the table under none of its candidate forms
NoCandidate(path, basePath, fileUrls) ==
    \A k \in DOMAIN pathVariations(path, basePath) :
        pathVariations(path, basePath)[k] \notin DOMAIN fileUrls

\* no quote character stands inside the value of an attribute
QuoteFree(doc) ==
    \A i \in DOMAIN doc :
        doc[i].kind = "attr" =>
            \A j \in 1..Len(doc[i].value) :
                CharAt(doc[i].value, j) \notin QuoteChars

\* a piece after the rewrite: text, url(...) references and attributes that
\* are skipped or have no candidate as written, the others with the URL in double quotes
ExpectedPiece(piece, basePath, fileUrls) ==
    IF piece.kind # "attr"
    THEN Render(piece)
    ELSE IF Skipped(piece.value) \/ NoCandidate(piece.value, basePath, fileUrls)
    THEN Render(piece)
    ELSE piece.name \o "=\"" \o Resolve(piece.value, basePath, fileUrls) \o "\""

RECURSIVE Expected(_, _, _)
Expected(doc, basePath, fileUrls) ==
    IF doc = << >>
    THEN ""
    ELSE ExpectedPiece(Head(doc), basePath, fileUrls)
             \o Expected(Tail(doc), basePath, fileUrls)

\* C27: a reference that is a key of the table under none of its candidate
\* forms stands in the rewritten document exactly as it was written, and the
\* rewrite completes with the other references rewritten: of a document
\* whose attribute values hold no quote, every piece but the resolved
\* references is unchanged.
C27_UnresolvedLeftAsWritten ==
    rewriteJob.pc = "done" =>
        LET basePath == BasePath(rewriteJob.launchUrl)
        IN  /\ \A i \in DOMAIN rewriteJob.log :
                  NoCandidate(rewriteJob.log[i].path, basePath, rewriteJob.fileUrls)
                      => /\ rewriteJob.log[i].text = rewriteJob.log[i].match
                         /\ rewriteJob.log[i].url = ""
            /\ QuoteFree(rewriteJob.doc)
                  => rewriteJob.out =
                         InsertBase(InsertScript(
                             Expected(rewriteJob.doc, basePath, rewriteJob.fileUrls)))

\* C27 happens: the rewrite completed on a document with a reference to
\* missing.png, left as written, and a reference that was rewritten
C27_Witness ==
    /\ rewriteJob.pc = "done"
    /\ \E i, j \in DOMAIN rewriteJob.log :
          /\ rewriteJob.log[i].path = "missing.png"
          /\ rewriteJob.log[i].text = "src='missing.png'"
          /\ Includes(rewriteJob.out, "<img src='missing.png'>")
          /\ rewriteJob.log[j].url # ""

\* C28: whenever the archive has the entry basePath + p, a reference "./" + p
\* or p in the launch document under basePath is rewritten to the URL of
\* that entry, whatever other entries the archive has; a reference to a path
\* the archive has nowhere stays as written.
C28_BaseRelativeResolved ==
    rewriteJob.pc = "done" =>
        LET basePath == BasePath(rewriteJob.launchUrl)
        IN  \A i \in DOMAIN rewriteJob.log :
                LET path == rewriteJob.log[i].path
                    p == StripLeading(path, "./")
                IN  /\ (/\ ~Skipped(path)
                        /\ ~StartsWith(path, "/")
                        /\ (basePath \o p) \in rewriteJob.archive)
                           => rewriteJob.log[i].url = ObjectUrl(basePath \o p)
                    /\ path = "missing.png"
                           => rewriteJob.log[i].text = rewriteJob.log[i].match

\* C29: resolving the same reference with the same base path against the
\* finished table gives the same URL, or the same failure, every time, and
\* the rewrite leaves the table as it was.
C29_ResolverIdempotent ==
    [][RewriteDocument =>
          /\ rewriteJob'.fileUrls = rewriteJob.fileUrls
          /\ \A i, j \in DOMAIN rewriteJob'.log :
                rewriteJob'.log[i].path = rewriteJob'.log[j].path
                    => rewriteJob'.log[i].url = rewriteJob'.log[j].url
          /\ \A i \in DOMAIN rewriteJob'.log :
                ~Skipped(rewriteJob'.log[i].path)
                    => rewriteJob'.log[i].url =
                           Resolve(rewriteJob'.log[i].path,
                                   BasePath(rewriteJob.launchUrl),
                                   rewriteJob.fileUrls)]_vars

\* C29 happens: one reference stood twice in the document and was resolved
\* twice to the same URL
C29_Witness ==
    /\ rewriteJob.pc = "done"
    /\ \E i, j \in DOMAIN rewriteJob.log :
          /\ i # j
          /\ rewriteJob.log[i].path = "img/logo.png"
          /\ rewriteJob.log[j].path = "img/logo.png"
          /\ rewriteJob.log[i].url = ObjectUrl("content/img/logo.png")
          /\ rewriteJob.log[j].url = ObjectUrl("content/img/logo.png")

\* the URL of the first of the candidates the table has, "" when it has none
FirstHit(candidates, fileUrls) ==
    LET hits == {k \in DOMAIN candidates : candidates[k] \in DOMAIN fileUrls}
    IN  IF hits = {}
        THEN ""
        ELSE fileUrls[candidates[CHOOSE k \in hits : \A j \in hits : k <= j]]

\* C30 as stated: the candidates are tried in the order reference as
\* written, basePath + reference, reference without its leading "./",
\* basePath + that form, reference without its leading "/", and the URL of
\* the first one in the table is returned.
C30_ClaimedOrder ==
    rewriteJob.pc = "done" =>
        LET basePath == BasePath(rewriteJob.launchUrl)
        IN  \A i \in DOMAIN rewriteJob.log :
                LET path == rewriteJob.log[i].path
                IN  ~Skipped(path)
                        => rewriteJob.log[i].url =
                               FirstHit(<< path,
                                           basePath \o path,
                                           StripLeading(path, "./"),
                                           basePath \o StripLeading(path, "./"),
                                           StripLeading(path, "/") >>,
                                        rewriteJob.fileUrls)

\* C30 amended: the candidates are tried in the order reference as written,
\* reference without its leading "./", reference without its leading "/",
\* then the same three forms after basePath, and the URL of the first one in
\* the table is returned.
C30_CandidateOrder ==
    rewriteJob.pc = "done" =>
        LET basePath == BasePath(rewriteJob.launchUrl)
        IN  \A i \in DOMAIN rewriteJob.log :
                LET path == rewriteJob.log[i].path
                IN  ~Skipped(path)
                        => rewriteJob.log[i].url =
                               FirstHit(<< path,
                                           StripLeading(path, "./"),
                                           StripLeading(path, "/"),
                                           basePath \o path,
                                           basePath \o StripLeading(path, "./"),
                                           basePath \o StripLeading(path, "/") >>,
                                        rewriteJob.fileUrls)

\* C30 happens: with entries content/./x.png and img/x.png, the latter stored
\* last, the reference ./x.png took the URL of its form without "./", the
\* filename key of img/x.png, although basePath + reference is a key too
C30_Witness ==
    /\ rewriteJob.pc = "done"
    /\ "content/./x.png" \in DOMAIN rewriteJob.fileUrls
    /\ \E i \in DOMAIN rewriteJob.log :
          /\ rewriteJob.log[i].path = "./x.png"
          /\ rewriteJob.log[i].url = ObjectUrl("img/x.png")

----------------------------------------------------------------------------
(* The resource table *)

\* the keys that spell the whole path of an entry: as it is, with slashes,
\* and that form after "/" and after "./"
FullPathKeys(relativePath) ==
    {relativePath, Normalized(relativePath),
     "/" \o Normalized(relativePath), "./" \o Normalized(relativePath)}

\* C31: every entry is stored under its path as it is, its path with
\* slashes and that path after "/" and after "./"; the filename key is
\* stored only when the table does not have it yet, so storing an entry never
\* changes a filename key already there, and every full-path key of every
\* entry stored so far maps to the URL of that entry.
C31_FilenameFirstWriterWins ==
    [][\A relativePath \in UNION {a.files : a \in Archives} :
          RegisterEntry(relativePath) =>
              LET filename == Filename(relativePath)
              IN  /\ \A key \in FullPathKeys(relativePath) :
                        /\ key \in DOMAIN rewriteJob'.fileUrls
                        /\ rewriteJob'.fileUrls[key] = ObjectUrl(relativePath)
                  /\ (/\ filename \in DOMAIN rewriteJob.fileUrls
                      /\ filename \notin FullPathKeys(relativePath))
                         => rewriteJob'.fileUrls[filename]
                                = rewriteJob.fileUrls[filename]
                  /\ \A entry \in rewriteJob'.registered :
                        \A key \in FullPathKeys(entry) :
                            rewriteJob'.fileUrls[key] = ObjectUrl(entry)]_vars

\* the entries of an archive in every order
Orders(archive) ==
    {order \in [1..Cardinality(archive) -> archive] :
         \A i, j \in DOMAIN order : order[i] = order[j] => i = j}

RECURSIVE RegisterInOrder(_, _)
\* the table after the entries were stored in the order given
RegisterInOrder(order, fileUrls) ==
    IF order = << >>
    THEN fileUrls
    ELSE RegisterInOrder(Tail(order), Register(fileUrls, Head(order)))

\* C36: the finished table of a package is the same in whatever order the
\* extractions complete, and so is the rewritten document.
C36_OrderIndependent ==
    rewriteJob.registered = rewriteJob.archive =>
        \A order \in Orders(rewriteJob.archive) :
            /\ RegisterInOrder(order, EmptyMap) = rewriteJob.fileUrls
            /\ rewriteJob.pc = "done"
                  => InsertBase(ReplaceAll(InsertScript(Html(rewriteJob.doc)), 1,
                                           BasePath(rewriteJob.launchUrl),
                                           [out |-> "", log |-> << >>,
                                            fileUrls |->
                                                RegisterInOrder(order, EmptyMap)]).out)
                         = rewriteJob.out

----------------------------------------------------------------------------
(* The error codes of the two API objects *)

\* C35: after any interleaving of calls on the two API objects, the code
\* LMSGetLastError returns is a code LMSGetErrorString maps to a non-empty
\* string, and the code GetLastError returns is a code GetErrorString maps
\* to a non-empty string.
C35_CodesOfOwnVersion ==
    last.op = "GetLastError" =>
        /\ last.api = "API" => ErrorString12(last.ret) # ""
        /\ last.api = "API_1484_11" => ErrorString2004(last.ret) # ""

----------------------------------------------------------------------------
(* Overlapping loads *)

\* C37: once every load of the player has settled and the package
\* requested last was loaded, the version, the data model defaults and the
\* document shown are those of that package, also when an earlier load was
\* still in flight when it was requested.
C37_LatestPackageShown ==
    (/\ mounted
     /\ Len(loads) >= 2
     /\ \A l \in 1..Len(loads) : ~InFlight(l)
     /\ loads[Len(loads)].pc = "done")
        => LET version == DetectVersion(PackageOf(loads[Len(loads)].pkg))
           IN  /\ iframeSrc = DocumentUrl(Len(loads))
               /\ scormVersion = version
               /\ cmiData = initializeCMIData(version)

----------------------------------------------------------------------------
(* Style sheets and the place of the script *)

\* C32: every url(...) reference of the launch document, in a style
\* attribute or in a style element, that resolves against the table stands
\* in the rewritten document with the resolved URL in its place.
C32_CssUrlRewritten ==
    rewriteJob.pc = "done" =>
        \A i \in DOMAIN rewriteJob.doc :
            LET url == IF rewriteJob.doc[i].kind = "css"
                       THEN Resolve(rewriteJob.doc[i].value,
                                    BasePath(rewriteJob.launchUrl),
                                    rewriteJob.fileUrls)
                       ELSE ""
            IN  url # ""
                    => \/ Includes(rewriteJob.out, "url(" \o url \o ")")
                       \/ Includes(rewriteJob.out, "url(\"" \o url \o "\")")
                       \/ Includes(rewriteJob.out, "url('" \o url \o "')")

\* the position of the ">" that ends the first opening tag of the name
\* given, written in any case, with or without attributes; 0 when the
\* document has none
OpeningTagEnd(html, name) ==
    LET opens == {i \in 1..(Len(html) - Len(name) - 1) :
                      /\ toLowerCase(Substring(html, i, i + Len(name)))
                             = "<" \o name
                      /\ CharAt(html, i + Len(name) + 1) \in {">", " "}}
    IN  IF opens = {}
        THEN 0
        ELSE LET open == CHOOSE i \in opens : \A j \in opens : i <= j
                 closes == {j \in open..Len(html) : CharAt(html, j) = ">"}
             IN  IF closes = {}
                 THEN 0
                 ELSE CHOOSE j \in closes : \A k \in closes : j <= k

\* where the script belongs: after the opening head tag, else after the
\* opening html tag, else at the start
InsertionPoint(html) ==
    IF OpeningTagEnd(html, "head") # 0
    THEN OpeningTagEnd(html, "head")
    ELSE OpeningTagEnd(html, "html")

\* C33: the rewritten document has the script exactly once, right after the
\* opening head tag when the document has one, else right after the opening
\* html tag when it has one, else at the very start (the base tag of lines
\* 511-514 may stand between the head tag and the script).
C33_ScriptPlacement ==
    rewriteJob.pc = "done" =>
        LET html == Html(rewriteJob.doc)
            out == rewriteJob.out
            at == InsertionPoint(html)
            baseTag == "<base href=\"blob:\">"
            occurrences == {i \in 1..(Len(out) - Len(apiFinderScript) + 1) :
                                Substring(out, i, i + Len(apiFinderScript) - 1)
                                    = apiFinderScript}
        IN  /\ Cardinality(occurrences) = 1
            /\ Substring(out, 1, at) = Substring(html, 1, at)
            /\ \/ at + 1 \in occurrences
               \/ /\ Substring(out, at + 1, at + Len(baseTag)) = baseTag
                  /\ at + Len(baseTag) + 1 \in occurrences

----------------------------------------------------------------------------
(* The search for the API objects *)

\* the windows the walk can visit: the first maxAttempts of the chain, up to
\* its top window or its detached window
Within(chain) ==
    {win \in 1..maxAttempts :
         /\ chain.top # 0 => win <= chain.top
         /\ chain.detached # 0 => win <= chain.detached}

----------------------------------------------------------------------------
(* The API objects on the host window *)

\* C38: the API objects on the host window belong to the player that is
\* open: once the open player has installed its objects they are its own,
\* and the load of a player that was closed does not replace them.
C38_ApiOfOpenPlayer ==
    \A p \in DOMAIN host.players :
        (host.players[p].open /\ host.players[p].pc = "set") => host.API = p

====
